---- MODULE Spec2Model ----
(***************************************************************************)
(* A model of the time-sentence core of view_assist_integration:           *)
(*   core/translator/normaliser.py  Normaliser (templates, TimerInfo)      *)
(*   core/translator/decoder.py     Decoder.decode                         *)
(*   core/timers.py                 TimerManager.get_expiry_from_timerinfo *)
(*                                                                         *)
(* Python strings that the code parses (digit strings, sentences) are      *)
(* sequences of one-character strings.  Strings taken from a closed        *)
(* vocabulary (day names, "pm", "noon", "before", ...) are TLA+ strings.   *)
(* A point in time is a number of seconds counted from 00:00 of the        *)
(* current day; `today` is the weekday of the current day (monday = 0).    *)
(***************************************************************************)
EXTENDS Integers, Sequences, FiniteSets, TLC

VARIABLES
    pc,         \* position in the pipeline: "start", "matched", "built", "resolved",
                \* "decoded", "undecodable", "raised", "collection", "renormalised",
                \* "responded"; or the handler that ran last
    sentence,   \* the sentence handed to normalise
    normaliser_pack, \* self.normalisations as load_language_pack returns it
    language_pack,   \* self.lang as load_language_pack returns it
    matched,    \* the template that matched: its family and its place in the family
    d,          \* the field map (a regex groupdict) handed to build_timer_info
    type_hint,  \* the type_hint argument of build_timer_info
    timer,      \* the TimerInfo object (mutable dataclass)
    built,      \* the TimerInfo as build_timer_info returned it
    today,      \* weekday of the current day, monday = 0
    now,        \* current time, seconds since 00:00 of the current day
    expiry,     \* result of get_expiry_from_timerinfo, seconds since 00:00 today
    raised,     \* exception raised by the last call, "" if none
    decoded,    \* result of Decoder.decode
    locale,     \* the locale code of the call
    translations,    \* the pack files under translations/timers: name -> content
    loaded_lang,     \* TimeSentenceTranslator.loaded_lang
    translator_lang, \* TimeSentenceTranslator.lang, the cached pack
    en,         \* the sentence as translate returned it
    normalised, \* the sentence as normalise runs the templates on it
    renormalised,    \* the same steps applied to the normalised sentence
    translated, \* a collection and the result of _translate_collection for it
    response,   \* the response of the last service or translate_response call
    timers,     \* VATimerStore.timers: timer id -> Timer
    timer_tasks,     \* TimerManager.timer_tasks: timer id -> the expires_at its task waits for
    calls,      \* the coroutines in flight on the event loop, each with its locals
                \* and the point at which it is suspended
    wait_tasks, \* the asyncio tasks created for _wait_for_timer: timer id -> task
    events      \* the events fired on the bus, in order: <<timer id, event type>>

input == <<sentence, normaliser_pack, language_pack>>

translator ==
    <<locale, translations, loaded_lang, translator_lang, en, normalised,
      renormalised, translated, response>>

store == <<timers, timer_tasks>>

concurrent == <<calls, wait_tasks, events>>

vars ==
    <<pc, sentence, normaliser_pack, language_pack, matched, d, type_hint, timer,
      built, today, now, expiry, raised, decoded, translator, store, concurrent>>

-----------------------------------------------------------------------------
(* Python values *)

\* None, as the value of a numeric group that took no part in the match
None == <<"None">>

Range(f) == {f[i] : i \in DOMAIN f}

Digit == {"0", "1", "2", "3", "4", "5", "6", "7", "8", "9"}

DigitValue(c) ==
    CASE c = "0" -> 0 [] c = "1" -> 1 [] c = "2" -> 2 [] c = "3" -> 3
      [] c = "4" -> 4 [] c = "5" -> 5 [] c = "6" -> 6 [] c = "7" -> 7
      [] c = "8" -> 8 [] c = "9" -> 9

DigitChar(n) ==
    CASE n = 0 -> "0" [] n = 1 -> "1" [] n = 2 -> "2" [] n = 3 -> "3"
      [] n = 4 -> "4" [] n = 5 -> "5" [] n = 6 -> "6" [] n = 7 -> "7"
      [] n = 8 -> "8" [] n = 9 -> "9"

\* int(s) for a string of decimal digits
RECURSIVE int(_)
int(s) ==
    IF Len(s) = 1 THEN DigitValue(s[1])
    ELSE 10 * int(SubSeq(s, 1, Len(s) - 1)) + DigitValue(s[Len(s)])

\* str(n) for n >= 0
RECURSIVE str(_)
str(n) == IF n < 10 THEN <<DigitChar(n)>> ELSE str(n \div 10) \o <<DigitChar(n % 10)>>

RECURSIVE Pow10(_)
Pow10(k) == IF k = 0 THEN 1 ELSE 10 * Pow10(k - 1)

\* s.split(sep) for a one-character separator
RECURSIVE split(_, _)
split(s, sep) ==
    IF \A i \in DOMAIN s : s[i] # sep THEN <<s>>
    ELSE LET i == CHOOSE k \in DOMAIN s : s[k] = sep /\ \A j \in 1..(k - 1) : s[j] # sep
         IN  <<SubSeq(s, 1, i - 1)>> \o split(SubSeq(s, i + 1, Len(s)), sep)

\* dt.timedelta(days, hours, minutes, seconds) in seconds
timedelta(days, hours, minutes, seconds) ==
    days * 86400 + hours * 3600 + minutes * 60 + seconds

-----------------------------------------------------------------------------
(* Strings as character sequences *)

\* the words that are written out in normaliser.py
Vocabulary ==
    {"monday", "tuesday", "wednesday", "thursday", "friday", "saturday",
     "sunday", "today", "tomorrow", "am", "pm", "morning", "afternoon",
     "evening", "night", "tonight", "noon", "midnight", "half", "quarter",
     "threequarter", "and", "minus", "after", "before", "on", "this", "at",
     "days", "day", "hours", "hour", "minutes", "minute", "mins", "min",
     "seconds", "second", "secs", "sec", "oclock", "zero", "one", "two",
     "three", "four", "five", "six", "seven", "eight", "nine", "ten",
     "eleven", "twelve", "thirteen", "fourteen", "fifteen", "sixteen",
     "seventeen", "eighteen", "nineteen", "twenty", "thirty", "forty",
     "fifty", "sixty", "seventy", "eighty", "ninety", "hundred", "thousand",
     "million", "billion", "past", "to", "hrs", "midday", "set", "timer",
     "for", "please"}

\* the characters of a Python string literal: a word of the vocabulary, or a
\* single character
chars(w) ==
    CASE w = "monday" -> <<"m", "o", "n", "d", "a", "y">>
      [] w = "tuesday" -> <<"t", "u", "e", "s", "d", "a", "y">>
      [] w = "wednesday" -> <<"w", "e", "d", "n", "e", "s", "d", "a", "y">>
      [] w = "thursday" -> <<"t", "h", "u", "r", "s", "d", "a", "y">>
      [] w = "friday" -> <<"f", "r", "i", "d", "a", "y">>
      [] w = "saturday" -> <<"s", "a", "t", "u", "r", "d", "a", "y">>
      [] w = "sunday" -> <<"s", "u", "n", "d", "a", "y">>
      [] w = "today" -> <<"t", "o", "d", "a", "y">>
      [] w = "tomorrow" -> <<"t", "o", "m", "o", "r", "r", "o", "w">>
      [] w = "am" -> <<"a", "m">>
      [] w = "pm" -> <<"p", "m">>
      [] w = "morning" -> <<"m", "o", "r", "n", "i", "n", "g">>
      [] w = "afternoon" -> <<"a", "f", "t", "e", "r", "n", "o", "o", "n">>
      [] w = "evening" -> <<"e", "v", "e", "n", "i", "n", "g">>
      [] w = "night" -> <<"n", "i", "g", "h", "t">>
      [] w = "tonight" -> <<"t", "o", "n", "i", "g", "h", "t">>
      [] w = "noon" -> <<"n", "o", "o", "n">>
      [] w = "midnight" -> <<"m", "i", "d", "n", "i", "g", "h", "t">>
      [] w = "half" -> <<"h", "a", "l", "f">>
      [] w = "quarter" -> <<"q", "u", "a", "r", "t", "e", "r">>
      [] w = "threequarter" -> <<"t", "h", "r", "e", "e", "q", "u", "a", "r", "t", "e", "r">>
      [] w = "and" -> <<"a", "n", "d">>
      [] w = "minus" -> <<"m", "i", "n", "u", "s">>
      [] w = "after" -> <<"a", "f", "t", "e", "r">>
      [] w = "before" -> <<"b", "e", "f", "o", "r", "e">>
      [] w = "on" -> <<"o", "n">>
      [] w = "this" -> <<"t", "h", "i", "s">>
      [] w = "at" -> <<"a", "t">>
      [] w = "days" -> <<"d", "a", "y", "s">>
      [] w = "day" -> <<"d", "a", "y">>
      [] w = "hours" -> <<"h", "o", "u", "r", "s">>
      [] w = "hour" -> <<"h", "o", "u", "r">>
      [] w = "minutes" -> <<"m", "i", "n", "u", "t", "e", "s">>
      [] w = "minute" -> <<"m", "i", "n", "u", "t", "e">>
      [] w = "mins" -> <<"m", "i", "n", "s">>
      [] w = "min" -> <<"m", "i", "n">>
      [] w = "seconds" -> <<"s", "e", "c", "o", "n", "d", "s">>
      [] w = "second" -> <<"s", "e", "c", "o", "n", "d">>
      [] w = "secs" -> <<"s", "e", "c", "s">>
      [] w = "sec" -> <<"s", "e", "c">>
      [] w = "oclock" -> <<"o", "c", "l", "o", "c", "k">>
      [] w = "zero" -> <<"z", "e", "r", "o">>
      [] w = "one" -> <<"o", "n", "e">>
      [] w = "two" -> <<"t", "w", "o">>
      [] w = "three" -> <<"t", "h", "r", "e", "e">>
      [] w = "four" -> <<"f", "o", "u", "r">>
      [] w = "five" -> <<"f", "i", "v", "e">>
      [] w = "six" -> <<"s", "i", "x">>
      [] w = "seven" -> <<"s", "e", "v", "e", "n">>
      [] w = "eight" -> <<"e", "i", "g", "h", "t">>
      [] w = "nine" -> <<"n", "i", "n", "e">>
      [] w = "ten" -> <<"t", "e", "n">>
      [] w = "eleven" -> <<"e", "l", "e", "v", "e", "n">>
      [] w = "twelve" -> <<"t", "w", "e", "l", "v", "e">>
      [] w = "thirteen" -> <<"t", "h", "i", "r", "t", "e", "e", "n">>
      [] w = "fourteen" -> <<"f", "o", "u", "r", "t", "e", "e", "n">>
      [] w = "fifteen" -> <<"f", "i", "f", "t", "e", "e", "n">>
      [] w = "sixteen" -> <<"s", "i", "x", "t", "e", "e", "n">>
      [] w = "seventeen" -> <<"s", "e", "v", "e", "n", "t", "e", "e", "n">>
      [] w = "eighteen" -> <<"e", "i", "g", "h", "t", "e", "e", "n">>
      [] w = "nineteen" -> <<"n", "i", "n", "e", "t", "e", "e", "n">>
      [] w = "twenty" -> <<"t", "w", "e", "n", "t", "y">>
      [] w = "thirty" -> <<"t", "h", "i", "r", "t", "y">>
      [] w = "forty" -> <<"f", "o", "r", "t", "y">>
      [] w = "fifty" -> <<"f", "i", "f", "t", "y">>
      [] w = "sixty" -> <<"s", "i", "x", "t", "y">>
      [] w = "seventy" -> <<"s", "e", "v", "e", "n", "t", "y">>
      [] w = "eighty" -> <<"e", "i", "g", "h", "t", "y">>
      [] w = "ninety" -> <<"n", "i", "n", "e", "t", "y">>
      [] w = "hundred" -> <<"h", "u", "n", "d", "r", "e", "d">>
      [] w = "thousand" -> <<"t", "h", "o", "u", "s", "a", "n", "d">>
      [] w = "million" -> <<"m", "i", "l", "l", "i", "o", "n">>
      [] w = "billion" -> <<"b", "i", "l", "l", "i", "o", "n">>
      [] w = "past" -> <<"p", "a", "s", "t">>
      [] w = "to" -> <<"t", "o">>
      [] w = "hrs" -> <<"h", "r", "s">>
      [] w = "midday" -> <<"m", "i", "d", "d", "a", "y">>
      [] w = "set" -> <<"s", "e", "t">>
      [] w = "timer" -> <<"t", "i", "m", "e", "r">>
      [] w = "for" -> <<"f", "o", "r">>
      [] w = "please" -> <<"p", "l", "e", "a", "s", "e">>
      [] w = "three quarter" -> <<"t", "h", "r", "e", "e", " ", "q", "u", "a", "r", "t", "e", "r">>
      [] w = "funf" -> <<"f", "u", "n", "f">>
      [] w = "minuten" -> <<"m", "i", "n", "u", "t", "e", "n">>
      [] w = "viertel" -> <<"v", "i", "e", "r", "t", "e", "l">>
      [] w = "dreiviertel" -> <<"d", "r", "e", "i", "v", "i", "e", "r", "t", "e", "l">>
      [] w = "nach" -> <<"n", "a", "c", "h">>
      [] w = "normaliser" -> <<"n", "o", "r", "m", "a", "l", "i", "s", "e", "r">>
      [] OTHER -> <<w>>

\* the string literal a captured group equals; "" for None
word(s) ==
    IF s = None THEN ""
    ELSE IF \E w \in Vocabulary : chars(w) = s
         THEN CHOOSE w \in Vocabulary : chars(w) = s
         ELSE "?"

\* the string made of the given pieces, e.g. text(<<"5", " ", "pm">>) is "5 pm"
RECURSIVE text(_)
text(pieces) == IF pieces = <<>> THEN <<>> ELSE chars(Head(pieces)) \o text(Tail(pieces))

Letter ==
    {"a", "b", "c", "d", "e", "f", "g", "h", "i", "j", "k", "l", "m",
     "n", "o", "p", "q", "r", "s", "t", "u", "v", "w", "x", "y", "z"}

-----------------------------------------------------------------------------
(* Python's re: backtracking match of a pattern against a string *)

Lit(w) == [t |-> "lit", s |-> chars(w)]                    \* the literal text w
Set(cs) == [t |-> "set", cs |-> cs]                        \* one character of cs
AnyChar == [t |-> "any"]                                   \* .
Cat(rs) == [t |-> "cat", rs |-> rs]                        \* r1 r2 ...
Alt(rs) == [t |-> "alt", rs |-> rs]                        \* r1|r2|...
Opt(r) == [t |-> "rep", r |-> r, lo |-> 0, hi |-> 1]       \* r?
Rep(r, lo, hi) == [t |-> "rep", r |-> r, lo |-> lo, hi |-> hi]  \* r{lo,hi}; hi = -1: no limit
Grp(name, r) == [t |-> "grp", name |-> name, r |-> r]      \* (?P<name>r)
Bol == [t |-> "bol"]                                       \* ^
Eol == [t |-> "eol"]                                       \* $
WordB == [t |-> "wordb"]                                   \* \b

\* the characters of the sentences that are explored
Alphabet == Digit \cup Letter \cup {" ", ",", ":", "."}

\* \d, \s and \W
digit == Set(Digit)
space == Set({" "})
nonword == Set(Alphabet \ (Digit \cup Letter))

\* the literal text of a string that is already a character sequence
LitSeq(string) == [t |-> "lit", s |-> string]

GroupNames ==
    {"days", "hours", "minutes", "seconds", "fractions", "time_of_day", "day",
     "special_hour", "operator", "meridiem", "group1", "group2"}

NoGroups == [g \in GroupNames |-> None]

IsWordChar(string, i) == i \in DOMAIN string /\ string[i] \in Digit \cup Letter

\* the concatenation of a sequence of sequences, in order
RECURSIVE chain(_)
chain(lists) ==
    IF lists = <<>> THEN <<>>
    ELSE IF Len(lists) = 1 THEN lists[1]
    ELSE LET half == Len(lists) \div 2
         IN  chain(SubSeq(lists, 1, half)) \o chain(SubSeq(lists, half + 1, Len(lists)))

\* All ways r matches string from position i, in the order the backtracking
\* matcher tries them; each is the position after the match and the groups.
RECURSIVE run(_, _, _, _), each(_, _, _), cat(_, _, _, _)
run(r, string, i, groups) ==
    CASE r.t = "lit" ->
           IF i + Len(r.s) - 1 <= Len(string) /\ SubSeq(string, i, i + Len(r.s) - 1) = r.s
           THEN <<[pos |-> i + Len(r.s), groups |-> groups]>> ELSE <<>>
      [] r.t = "set" ->
           IF i <= Len(string) /\ string[i] \in r.cs
           THEN <<[pos |-> i + 1, groups |-> groups]>> ELSE <<>>
      [] r.t = "any" ->
           IF i <= Len(string) THEN <<[pos |-> i + 1, groups |-> groups]>> ELSE <<>>
      [] r.t = "cat" -> cat(r.rs, 1, string, <<[pos |-> i, groups |-> groups]>>)
      [] r.t = "alt" -> chain([k \in DOMAIN r.rs |-> run(r.rs[k], string, i, groups)])
      [] r.t = "rep" ->
           (IF r.hi # 0
            THEN each(Rep(r.r, r.lo - 1, IF r.hi = -1 THEN -1 ELSE r.hi - 1), string,
                      run(r.r, string, i, groups))
            ELSE <<>>)
           \o (IF r.lo <= 0 THEN <<[pos |-> i, groups |-> groups]>> ELSE <<>>)
      [] r.t = "grp" ->
           LET found == run(r.r, string, i, groups)
           IN  [k \in DOMAIN found |->
                  [pos |-> found[k].pos,
                   groups |-> [found[k].groups EXCEPT
                                 ![r.name] = SubSeq(string, i, found[k].pos - 1)]]]
      [] r.t = "bol" -> IF i = 1 THEN <<[pos |-> i, groups |-> groups]>> ELSE <<>>
      [] r.t = "eol" ->
           IF i = Len(string) + 1 THEN <<[pos |-> i, groups |-> groups]>> ELSE <<>>
      [] r.t = "wordb" ->
           IF IsWordChar(string, i - 1) # IsWordChar(string, i)
           THEN <<[pos |-> i, groups |-> groups]>> ELSE <<>>
\* the matches of r from each of the results `found`, in their order
each(r, string, found) ==
    chain([k \in DOMAIN found |-> run(r, string, found[k].pos, found[k].groups)])
\* the matches of rs[j], rs[j+1], ... in sequence, from each of `found`
cat(rs, j, string, found) ==
    IF j > Len(rs) \/ found = <<>> THEN found
    ELSE cat(rs, j + 1, string, each(rs[j], string, found))

\* re.match(pattern, string): the groups of the first match, or NoMatch
NoMatch == [matched |-> FALSE, groups |-> NoGroups]
re_match(pattern, string) ==
    LET found == run(pattern, string, 1, NoGroups)
    IN  IF found = <<>> THEN NoMatch
        ELSE [matched |-> TRUE, groups |-> found[1].groups]

\* re.search from position i on: the first match at the leftmost position
search(pattern, string, i) ==
    LET starts == {k \in i..(Len(string) + 1) : run(pattern, string, k, NoGroups) # <<>>}
    IN  IF starts = {}
        THEN [found |-> FALSE, start |-> 0, end |-> 0, groups |-> NoGroups]
        ELSE LET start == CHOOSE k \in starts : \A j \in starts : k <= j
                 found == run(pattern, string, start, NoGroups)
             IN  [found |-> TRUE, start |-> start, end |-> found[1].pos,
                  groups |-> found[1].groups]

\* re.findall: the groups of the successive non-overlapping matches from i on
RECURSIVE findall(_, _, _)
findall(pattern, string, i) ==
    LET m == search(pattern, string, i)
    IN  IF ~m.found THEN <<>>
        ELSE <<m.groups>>
             \o findall(pattern, string, IF m.end > m.start THEN m.end ELSE m.end + 1)

\* re.sub(pattern, repl, string) for a replacement text without group references
\* and a pattern that matches no empty string; from position i on
RECURSIVE sub(_, _, _, _)
sub(pattern, repl, string, i) ==
    LET m == search(pattern, string, i)
    IN  IF ~m.found \/ m.end = m.start THEN SubSeq(string, i, Len(string))
        ELSE SubSeq(string, i, m.start - 1) \o repl \o sub(pattern, repl, string, m.end)

\* s.strip() and " ".join(s.split())
RECURSIVE strip(_), collapse(_)
strip(string) ==
    IF string # <<>> /\ Head(string) = " " THEN strip(Tail(string))
    ELSE IF string # <<>> /\ string[Len(string)] = " "
         THEN strip(SubSeq(string, 1, Len(string) - 1))
         ELSE string
collapse(string) ==
    LET t == strip(string)
    IN  IF \E i \in 1..(Len(t) - 1) : t[i] = " " /\ t[i + 1] = " "
        THEN LET i == CHOOSE k \in 1..(Len(t) - 1) : t[k] = " " /\ t[k + 1] = " "
             IN  collapse(SubSeq(t, 1, i) \o SubSeq(t, i + 2, Len(t)))
        ELSE t

\* `piece in string` for strings
contains(string, piece) ==
    \E i \in 1..(Len(string) - Len(piece) + 1) :
        SubSeq(string, i, i + Len(piece) - 1) = piece

-----------------------------------------------------------------------------
(* normaliser.py: TimerInfo and build_timer_info *)

\* TimerInfo(): the dataclass defaults
TimerInfo ==
    [days |-> 0, hours |-> 0, minutes |-> 0, seconds |-> 0,
     dayofweek |-> "", meridiem |-> "", timeofday |-> "", special_hour |-> "",
     is_time |-> FALSE]

\* handle_floats: (whole, fraction); the fraction 0.<digits> is kept exact as num/den
handle_floats(value) ==
    IF value = None THEN [whole |-> 0, num |-> 0, den |-> 1]
    ELSE IF "." \in Range(value)
         THEN LET parts == split(value, ".")
              IN  [whole |-> int(parts[1]), num |-> int(parts[2]),
                   den |-> Pow10(Len(parts[2]))]
         ELSE [whole |-> int(value), num |-> 0, den |-> 1]

\* int(part * k) for the fraction part = num/den of handle_floats
carry(part, k) == (part.num * k) \div part.den

\* parse_fields with a carried fraction overwriting the parsed lower field
parse_fields_overwrite(dd) ==
    LET fd == handle_floats(dd.days)
        fh == handle_floats(dd.hours)
        fm == handle_floats(dd.minutes)
    IN  [TimerInfo EXCEPT
           !.dayofweek = dd.day,
           !.meridiem = dd.meridiem,
           !.timeofday = dd.time_of_day,
           !.special_hour = dd.special_hour,
           !.days = fd.whole,
           !.hours = IF fd.num # 0 THEN carry(fd, 24) ELSE fh.whole,
           !.minutes = IF fh.num # 0 THEN carry(fh, 60) ELSE fm.whole,
           !.seconds = IF fm.num # 0 THEN carry(fm, 60)
                       ELSE IF dd.seconds = None THEN 0
                       ELSE int(split(dd.seconds, ".")[1])]

\* build_timer_info, "Fixed items" and numeric fields with the decimal carry-down
parse_fields(dd) ==
    LET fd == handle_floats(dd.days)
        fh == handle_floats(dd.hours)
        fm == handle_floats(dd.minutes)
    IN  [TimerInfo EXCEPT
           !.dayofweek = dd.day,
           !.meridiem = dd.meridiem,
           !.timeofday = dd.time_of_day,
           !.special_hour = dd.special_hour,
           !.days = fd.whole,
           !.hours = fh.whole + carry(fd, 24),
           !.minutes = fm.whole + carry(fh, 60),
           !.seconds = (IF dd.seconds = None THEN 0
                        ELSE int(split(dd.seconds, ".")[1])) + carry(fm, 60)]

\* the multiplier of a fraction word, in quarters (0.5 = 2/4, 0.25 = 1/4, 0.75 = 3/4)
multiplier(fraction) ==
    CASE fraction = "half" -> 2
      [] fraction = "quarter" -> 1
      [] fraction = "threequarter" -> 3
      [] OTHER -> 4

\* build_timer_info, the fraction word: an `if` followed by an if/elif/elif chain
apply_fraction(t, fraction) ==
    IF fraction = "" THEN t
    ELSE LET m  == multiplier(fraction)
             t1 == IF t.minutes > 0
                   THEN [t EXCEPT !.seconds = @ + (60 * m) \div 4] ELSE t
         IN  IF t1.hours > 0 THEN [t1 EXCEPT !.minutes = @ + (60 * m) \div 4]
             ELSE IF t1.days > 0 THEN [t1 EXCEPT !.hours = @ + (24 * m) \div 4]
             ELSE IF t1.minutes = 0 THEN [t1 EXCEPT !.minutes = @ + (60 * m) \div 4]
             ELSE t1

\* apply_operator that inverts the minutes without borrowing from the hours
apply_operator_no_borrow(t, operator) ==
    IF operator \in {"before", "minus"}
    THEN IF t.minutes > 0
         THEN [t EXCEPT !.minutes = 60 - t.minutes]
         ELSE IF t.hours > 0
              THEN [t EXCEPT !.hours = 24 - t.hours, !.days = @ - 1]
              ELSE t
    ELSE t

\* build_timer_info, the operator: "before" and "minus" invert the lower unit
apply_operator(t, operator) ==
    IF operator \in {"before", "minus"}
    THEN IF t.minutes > 0
         THEN [t EXCEPT !.minutes = 60 - t.minutes, !.hours = @ - 1]
         ELSE IF t.hours > 0
              THEN [t EXCEPT !.hours = 24 - t.hours, !.days = @ - 1]
              ELSE t
    ELSE t

\* _is_time that tests the duration signal before the time markers
_is_time_duration_first(b, hint) ==
    IF b.days # 0 \/ b.seconds # 0 THEN FALSE
    ELSE IF b.dayofweek # "" \/ b.meridiem # "" \/ b.special_hour # "" \/ b.timeofday # ""
    THEN TRUE
    ELSE IF hint # "" THEN hint = "time"
    ELSE TRUE

\* Normaliser._is_time; hint "" is None
_is_time(b, hint) ==
    IF b.dayofweek # "" \/ b.meridiem # "" \/ b.special_hour # "" \/ b.timeofday # ""
    THEN TRUE
    ELSE IF b.days # 0 \/ b.seconds # 0 THEN FALSE
    ELSE IF hint # "" THEN hint = "time"
    ELSE TRUE

build_timer_info(dd, hint) ==
    LET t == apply_operator(apply_fraction(parse_fields(dd), dd.fractions), dd.operator)
    IN  [t EXCEPT !.is_time = _is_time(t, hint)]

-----------------------------------------------------------------------------
(* normaliser.py: the regex vocabulary, templates and normalise *)

\* r1|r2|... over literal words
Words(ws) == Alt([k \in DOMAIN ws |-> Lit(ws[k])])

\* class RegexPatterns
STDTIME == Cat(<<Grp("hours", Rep(digit, 1, 2)),
                 Opt(Alt(<<Lit(":"), Lit("h"), space>>)),
                 Opt(Grp("minutes", Rep(digit, 1, 2)))>>)
DAYS == Grp("days", Rep(digit, 1, -1))
HOURS == Grp("hours", Rep(digit, 1, 2))
MINUTES == Grp("minutes", Rep(digit, 1, 2))
FRACTIONS == Grp("fractions", Words(<<"half", "quarter", "threequarter">>))
TIMEOFDAY ==
    Grp("time_of_day",
        Words(<<"am", "pm", "morning", "afternoon", "evening", "night", "tonight">>))
DAY ==
    Grp("day", Words(<<"monday", "tuesday", "wednesday", "thursday", "friday",
                       "saturday", "sunday", "today", "tomorrow">>))
SPECIAL_HOUR == Grp("special_hour", Words(<<"noon", "midnight">>))
OPERATOR == Grp("operator", Words(<<"and", "minus", "after", "before">>))
JOINER_WORDS == Words(<<"on", "this", "at", ",">>)

\* \d{1,2}(.\d+)? of the duration groups
DecimalNumber == Cat(<<Rep(digit, 1, 2), Opt(Cat(<<AnyChar, Rep(digit, 1, -1)>>))>>)

\* class RegexDurationPatterns
DurationDAYS ==
    Opt(Cat(<<Grp("days", DecimalNumber), Opt(space),
              Words(<<"days", "day", "d">>), WordB>>))
DurationHOURS ==
    Opt(Cat(<<Grp("hours", DecimalNumber), Opt(space),
              Words(<<"hours", "hour", "h">>), WordB>>))
DurationMINUTES ==
    Opt(Cat(<<Grp("minutes", DecimalNumber), Opt(space),
              Words(<<"minutes", "minute", "mins", "min", "m">>), WordB>>))
DurationSECONDS ==
    Opt(Cat(<<Grp("seconds", Rep(digit, 1, 2)), Opt(space),
              Words(<<"seconds", "second", "secs", "sec", "s">>), WordB>>))
DurationJOIN == Opt(Alt(<<Cat(<<Lit(","), space>>), Cat(<<space, Lit("and"), space>>), space>>))

\* REGEXLOOKUP; a placeholder that is not a key stays in the pattern as text
REGEXLOOKUP(key) ==
    CASE key = "std_time" -> STDTIME
      [] key = "days" -> DAYS
      [] key = "hours" -> HOURS
      [] key = "minutes" -> MINUTES
      [] key = "fractions" -> FRACTIONS
      [] key = "time_of_day" -> TIMEOFDAY
      [] key = "day" -> DAY
      [] key = "special_hour" -> SPECIAL_HOUR
      [] key = "operator" -> OPERATOR
      [] key = "joiner_words" -> JOINER_WORDS
      [] OTHER -> LitSeq(<<"{", key, "}">>)

\* A template is a sequence of items: a placeholder {key}, a piece of literal
\* text, a bracketed list of optional words followed by a space, or regex text.
P(key) == [k |-> "placeholder", v |-> key]
Txt(w) == [k |-> "text", v |-> w]
Optional(ws) == [k |-> "optional", v |-> ws]
Raw(r) == [k |-> "regex", v |-> r]
SP == Txt(" ")

STD_TIME_PATTERNS ==
    << <<P("special_hour")>>,
       <<P("std_time")>>,
       <<P("std_time"), P("time_of_day")>>,
       <<P("std_time"), SP, P("time_of_day")>>,
       <<P("std_time"), SP, P("time_of_day"), SP, P("day")>>,
       <<P("std_time"), SP, P("day")>>,
       <<P("std_time"), SP, P("day"), SP, P("time_of_day")>>,
       <<P("std_time"), SP, P("joiner_words"), SP, P("time_of_day")>>,
       <<P("std_time"), SP, P("joiner_words"), SP, P("day")>>,
       <<P("std_time"), SP, P("joiner_words"), SP, P("day"), SP, P("time_of_day")>>,
       <<P("day"), SP, P("std_time")>>,
       <<P("day"), SP, P("std_time"), SP, P("time_of_day")>>,
       <<P("day"), SP, P("joiner_words"), SP, P("std_time")>>,
       <<P("day"), SP, P("joiner_words"), SP, P("std_time"), SP, P("time_of_day")>>,
       <<P("day"), SP, P("joiner_words"), SP, P("time_of_day")>>,
       <<P("day"), SP, P("joiner_words"), SP, P("special_hour")>> >>

\* make_template_regex_pattern: placeholders become their regex; "[a, b] "
\* becomes (?:^|\b)(?:a|b\s)?, in which \s belongs to the last word only
make_template_regex_pattern(template) ==
    LET item(x) ==
            CASE x.k = "placeholder" -> REGEXLOOKUP(x.v)
              [] x.k = "text" -> Lit(x.v)
              [] x.k = "regex" -> x.v
              [] x.k = "optional" ->
                   Cat(<<Alt(<<Bol, WordB>>),
                         Opt(Alt([n \in DOMAIN x.v |->
                                    IF n = Len(x.v) THEN Cat(<<Lit(x.v[n]), space>>)
                                    ELSE Lit(x.v[n])]))>>)
    IN  Cat(<<Bol>> \o [n \in DOMAIN template |-> item(template[n])] \o <<Eol>>)

\* make_duration_pattern
make_duration_pattern ==
    Cat(<<Bol, DurationDAYS, DurationJOIN, DurationHOURS, DurationJOIN,
          DurationMINUTES, DurationJOIN, DurationSECONDS, Eol>>)

\* m.groupdict() as the field map build_timer_info reads: numeric groups are
\* digit strings or None, the other groups are words ("" for None)
groupdict(groups) ==
    [days |-> groups["days"], hours |-> groups["hours"],
     minutes |-> groups["minutes"], seconds |-> groups["seconds"],
     fractions |-> word(groups["fractions"]), operator |-> word(groups["operator"]),
     day |-> word(groups["day"]), time_of_day |-> word(groups["time_of_day"]),
     meridiem |-> word(groups["meridiem"]),
     special_hour |-> word(groups["special_hour"])]

NoFields == groupdict(NoGroups)

\* run_regex: the field map of the match of the template's pattern, or no match
run_regex(template, string) ==
    LET m == re_match(make_template_regex_pattern(template), string)
    IN  [matched |-> m.matched, d |-> groupdict(m.groups)]

\* the pattern of a TimerInfo that no template produced
NoPattern == [family |-> "", n |-> 0]

-----------------------------------------------------------------------------
(* wordstonumbers.py and the word steps of normaliser.py *)

\* str.lower()
Upper ==
    <<"A", "B", "C", "D", "E", "F", "G", "H", "I", "J", "K", "L", "M", 
      "N", "O", "P", "Q", "R", "S", "T", "U", "V", "W", "X", "Y", "Z">>
Lower ==
    <<"a", "b", "c", "d", "e", "f", "g", "h", "i", "j", "k", "l", "m", 
      "n", "o", "p", "q", "r", "s", "t", "u", "v", "w", "x", "y", "z">>
lower(string) ==
    [i \in DOMAIN string |->
        IF \E k \in DOMAIN Upper : Upper[k] = string[i]
        THEN Lower[CHOOSE k \in DOMAIN Upper : Upper[k] = string[i]]
        ELSE string[i]]

\* wordstonumbers.numbers, in the order of the dict
numbers ==
    << <<"zero", 0>>,
       <<"one", 1>>,
       <<"two", 2>>,
       <<"three", 3>>,
       <<"four", 4>>,
       <<"five", 5>>,
       <<"six", 6>>,
       <<"seven", 7>>,
       <<"eight", 8>>,
       <<"nine", 9>>,
       <<"ten", 10>>,
       <<"eleven", 11>>,
       <<"twelve", 12>>,
       <<"thirteen", 13>>,
       <<"fourteen", 14>>,
       <<"fifteen", 15>>,
       <<"sixteen", 16>>,
       <<"seventeen", 17>>,
       <<"eighteen", 18>>,
       <<"nineteen", 19>>,
       <<"twenty", 20>>,
       <<"thirty", 30>>,
       <<"forty", 40>>,
       <<"fifty", 50>>,
       <<"sixty", 60>>,
       <<"seventy", 70>>,
       <<"eighty", 80>>,
       <<"ninety", 90>>,
       <<"hundred", 100>>,
       <<"thousand", 1000>>,
       <<"million", 1000000>>,
       <<"billion", 1000000000>> >>

\* numbers[w] as an integer
number_of(w) == (CHOOSE k \in Range(numbers) : chars(k[1]) = w)[2]

\* WordsToDigits.convert: the loop over the tens+units compounds that were found
RECURSIVE sub_compounds(_, _)
sub_compounds(string, matches) ==
    IF matches = <<>> THEN string
    ELSE LET m == Head(matches)
             p == Cat(<<Alt(<<Bol, space>>), LitSeq(m.group1), Lit(" "), LitSeq(m.group2),
                        Alt(<<Eol, space>>)>>)
             repl == <<" ">> \o str(number_of(m.group1) + number_of(m.group2)) \o <<" ">>
         IN  sub_compounds(sub(p, repl, string, 1), Tail(matches))

\* WordsToDigits.convert: the loop over the single number words that were found
RECURSIVE sub_numbers(_, _)
sub_numbers(string, matches) ==
    IF matches = <<>> THEN string
    ELSE LET group == Head(matches).group1
             word_p == Cat(<<Alt(<<Bol, space>>), LitSeq(group), Alt(<<Eol, space>>)>>)
             repl == <<" ">> \o str(number_of(group)) \o <<" ">>
         IN  sub_numbers(sub(word_p, repl, string, 1), Tail(matches))

\* WordsToDigits.convert
convert(string) ==
    LET tens == <<"twenty", "thirty", "forty", "fifty", "sixty", "seventy",
                  "eighty", "ninety">>
        units == <<"one", "two", "three", "four", "five", "six", "seven", "eight",
                   "nine">>
        all_numbers == [k \in DOMAIN numbers |-> numbers[k][1]]
        compound == Cat(<<Alt(<<Bol, space>>), Grp("group1", Words(tens)), Lit(" "),
                          Grp("group2", Words(units)), Alt(<<Eol, space>>)>>)
        s1 == sub_compounds(lower(string), findall(compound, lower(string), 1))
        single == Cat(<<Grp("group1", Words(all_numbers)), WordB>>)
        s2 == sub_numbers(s1, findall(single, s1, 1))
    IN  strip(sub(Rep(space, 1, -1), <<" ">>, s2, 1))

\* Normaliser.inString for a list of plain words: the texts that were found
inString(string, find) ==
    LET pattern == Cat(<<Alt(<<Bol, WordB>>),
                         Grp("group1", Words(SelectSeq(find, LAMBDA f : f # ""))),
                         Alt(<<Lit(","), WordB, Eol>>)>>)
        m == findall(pattern, string, 1)
    IN  [k \in DOMAIN m |-> m[k].group1]

\* Normaliser.replaceInString for a plain text to find
replaceInString(string, find, replace) ==
    LET pattern == Cat(<<Alt(<<Bol, WordB>>), LitSeq(strip(find)),
                         Alt(<<Lit(","), nonword, WordB, Eol>>)>>)
    IN  sub(pattern, <<" ">> \o replace \o <<" ">>, string, 1)

\* for match in m: string = replaceInString(string, match, replace)
RECURSIVE replace_matches(_, _, _)
replace_matches(string, m, replace) ==
    IF m = <<>> THEN string
    ELSE replace_matches(replaceInString(string, Head(m), replace), Tail(m), replace)

\* normalise_words: the loop over the (word, values) items of the collections
RECURSIVE normalise_items(_, _)
normalise_items(string, items) ==
    IF items = <<>> THEN string
    ELSE LET w == Head(items)[1]
             values == Head(items)[2]
             m == IF values # <<>> THEN inString(string, values) ELSE <<>>
         IN  normalise_items(replace_matches(string, m, chars(w)), Tail(items))

\* Normaliser.normalise_words
normalise_words(string, normalisations) ==
    normalise_items(lower(string),
                    normalisations.direct_translations \o normalisations.durations
                    \o normalisations.operators \o normalisations.meridiem
                    \o normalisations.fractions \o normalisations.special_hours)

\* normalise: the loop that removes the unwanted words
RECURSIVE remove_words(_, _)
remove_words(string, ws) ==
    IF ws = <<>> THEN string
    ELSE remove_words(replace_matches(string, inString(string, <<Head(ws)>>), <<>>),
                      Tail(ws))

\* str_pattern.replace("{basic_time}", basic_time_pattern)
RECURSIVE replace_basic_time(_, _)
replace_basic_time(template, basic_time_pattern) ==
    IF template = <<>> THEN <<>>
    ELSE (IF Head(template) = P("basic_time") THEN basic_time_pattern
          ELSE <<Head(template)>>)
         \o replace_basic_time(Tail(template), basic_time_pattern)

\* structures.get(name, [])
structures_get(structures, name) ==
    IF \E k \in DOMAIN structures : structures[k][1] = name
    THEN structures[CHOOSE k \in DOMAIN structures : structures[k][1] = name][2]
    ELSE <<>>

\* normalise: the templates the loop over the structures runs, in its order; a
\* template with {basic_time} is run once per basic_time template and never as it is
structure_patterns(structures) ==
    LET basic_time_patterns == structures_get(structures, "basic_time")
        expansions(str_pattern) ==
            IF \E i \in DOMAIN str_pattern : str_pattern[i] = P("basic_time")
            THEN [b \in DOMAIN basic_time_patterns |->
                     replace_basic_time(str_pattern, basic_time_patterns[b])]
            ELSE <<str_pattern>>
        of_group(patterns) == chain([k \in DOMAIN patterns |-> expansions(patterns[k])])
    IN  chain([g \in DOMAIN structures |-> of_group(structures[g][2])])

\* the place of the last template of the list whose pattern matches; 0 if
\* none does
last_match(templates, string) ==
    LET places == {k \in DOMAIN templates : run_regex(templates[k], string).matched}
    IN  IF places = {} THEN 0 ELSE CHOOSE k \in places : \A j \in places : k >= j

\* the place of the first template of the list whose pattern matches; 0 if
\* none does
first_match(templates, string) ==
    LET places == {k \in DOMAIN templates : run_regex(templates[k], string).matched}
    IN  IF places = {} THEN 0 ELSE CHOOSE k \in places : \A j \in places : k <= j

\* int() raises ValueError on a captured number with a character that is neither
\* a digit nor the decimal point (the . of \d{1,2}(.\d+)? is a wildcard)
raises_ValueError(dd) ==
    \E v \in {dd.days, dd.hours, dd.minutes, dd.seconds} :
        v # None /\ \E i \in DOMAIN v : v[i] \notin Digit \cup {"."}

\* a pack that load_language_pack could not load (None) or that has no key
NoPack == <<>>

\* the truth value of a pack in  if self.normalisations and self.lang
truthy(pack) == DOMAIN pack # {}

\* the type_hint normalise passes to build_timer_info for a family of templates:
\* as the caller gave it
type_hint_of_caller(family, hint) == hint

\* the type_hint normalise passes to build_timer_info for a family of templates
type_hint_passed(family, hint) ==
    CASE family = "std_time" -> "time"
      [] family = "structure" -> hint
      [] family = "durations" -> "interval"

\* The element of a one-element set. A step's result is bound as the element
\* of such a set where the next step uses it more than once: bound variables
\* hold values, so the step is evaluated once.
the(set) == CHOOSE x \in set : TRUE

\* normalise, lines 302-316: the sentence as the templates are run on it
cleaned(string, normalisations, lang) ==
    the({collapse(sub(Lit("oclock"), <<>>, s3, 1)) :
          s3 \in {IF \E k \in DOMAIN lang.numbers : contains(s2, chars(lang.numbers[k][1]))
                  THEN convert(collapse(s2))
                  ELSE s2 :
                   s2 \in {remove_words(s1, normalisations.remove_words) :
                            s1 \in {normalise_words(string, normalisations)}}}})

\* the result None of normalise
NotNormalised(s) ==
    [family |-> "", n |-> 0, s |-> s, d |-> NoFields, timer |-> TimerInfo, raised |-> ""]

\* normalise with the duration pattern tried before the standard times and the
\* structures
match_templates_durations_first(s, hint, lang) ==
    LET str_patterns == structure_patterns(lang.structures)
        duration_pattern == <<Raw(make_duration_pattern)>>
        result(family, place, template) ==
            the({[family |-> family, n |-> place, s |-> s, d |-> m,
                  timer |-> IF raises_ValueError(m) THEN TimerInfo
                            ELSE build_timer_info(m, type_hint_passed(family, hint)),
                  raised |-> IF raises_ValueError(m) THEN "ValueError" ELSE ""] :
                    m \in {run_regex(template, s).d}})
        std_times_then_structures ==
            the({IF std > 0 THEN result("std_time", std, STD_TIME_PATTERNS[std])
                 ELSE the({IF structure > 0
                           THEN result("structure", structure, str_patterns[structure])
                           ELSE NotNormalised(s) :
                              structure \in {first_match(str_patterns, s)}}) :
                    std \in {first_match(STD_TIME_PATTERNS, s)}})
    IN  IF run_regex(duration_pattern, s).matched
        THEN result("durations", 1, duration_pattern)
        ELSE std_times_then_structures

\* normalise, lines 314-357: the first template that matches the cleaned
\* sentence s, in the order standard times, structures, durations
match_templates(s, hint, lang) ==
    LET str_patterns == structure_patterns(lang.structures)
        duration_pattern == <<Raw(make_duration_pattern)>>
        result(family, place, template) ==
            the({[family |-> family, n |-> place, s |-> s, d |-> m,
                  timer |-> IF raises_ValueError(m) THEN TimerInfo
                            ELSE build_timer_info(m, type_hint_passed(family, hint)),
                  raised |-> IF raises_ValueError(m) THEN "ValueError" ELSE ""] :
                    m \in {run_regex(template, s).d}})
        structures_then_durations ==
            the({IF structure > 0
                 THEN result("structure", structure, str_patterns[structure])
                 ELSE IF run_regex(duration_pattern, s).matched
                      THEN result("durations", 1, duration_pattern)
                      ELSE NotNormalised(s) :
                    structure \in {first_match(str_patterns, s)}})
    IN  the({IF std > 0 THEN result("std_time", std, STD_TIME_PATTERNS[std])
             ELSE structures_then_durations :
                std \in {first_match(STD_TIME_PATTERNS, s)}})

\* Normaliser.normalise: the family and place of the template that matched
\* (family "" for the result None), the cleaned sentence s, the matched field
\* map and the TimerInfo built from it
normalise(string, hint, normalisations, lang) ==
    IF ~truthy(normalisations) \/ ~truthy(lang) THEN NotNormalised(string)
    ELSE the({match_templates(s, hint, lang) :
                 s \in {cleaned(string, normalisations, lang)}})

-----------------------------------------------------------------------------
(* translator/translator.py: TimeSentenceTranslator *)

\* the words of a collection entry: a list of strings, or a single string
List(ws) == [list |-> TRUE, v |-> ws]
Str(w) == [list |-> FALSE, v |-> <<w>>]

\* lang[:2]
_two_char_locale(code) == SubSeq(code, 1, IF Len(code) < 2 THEN Len(code) ELSE 2)

\* lang.split("-")[0] of Normaliser.load_language_pack
split_hyphen(code) ==
    IF \E i \in DOMAIN code : code[i] = "-"
    THEN SubSeq(code, 1, (CHOOSE i \in DOMAIN code :
                            code[i] = "-" /\ \A j \in 1..(i - 1) : code[j] # "-") - 1)
    ELSE code

\* re.sub(rf"(\d+){re.escape(sep)}(\d+)", r"\1.\2", s), from position i on
RECURSIVE sub_separator(_, _, _)
sub_separator(sep, string, i) ==
    LET m == search(Cat(<<Grp("group1", Rep(digit, 1, -1)), LitSeq(sep),
                          Grp("group2", Rep(digit, 1, -1))>>), string, i)
    IN  IF ~m.found THEN SubSeq(string, i, Len(string))
        ELSE SubSeq(string, i, m.start - 1) \o m.groups.group1 \o <<".">>
             \o m.groups.group2 \o sub_separator(sep, string, m.end)

\* TimeSentenceTranslator.clean_sentence; sep is "" for a pack without
\* decimal_separator
clean_sentence(string, sep) ==
    LET padded == <<" ">> \o strip(lower(string)) \o <<" ">>
    IN  collapse(IF sep # "" THEN sub_separator(chars(sep), padded, 1) ELSE padded)

\* len(x.split()) of a string
word_count(string) ==
    Cardinality({i \in DOMAIN string :
                    string[i] # " " /\ (i = 1 \/ string[i - 1] = " ")})

\* sorted(collection_words, key=lambda x: (-len(x.split()), -len(x))): a
\* stable sort
sorted_words(collection_words) ==
    LET n == Len(collection_words)
        key(i) == <<word_count(chars(collection_words[i])), Len(chars(collection_words[i]))>>
        first(i, j) == \/ key(i)[1] > key(j)[1]
                       \/ key(i)[1] = key(j)[1] /\ key(i)[2] > key(j)[2]
                       \/ key(i) = key(j) /\ i < j
        rank(i) == Cardinality({j \in 1..n : first(j, i)}) + 1
    IN  [r \in 1..n |-> collection_words[CHOOSE i \in 1..n : rank(i) = r]]

\* _translate_collection: the loop over the matches. A match is replaced by
\* the key of the first entry with `match in words`: membership for a list, a
\* substring test for a single string.
RECURSIVE translate_matches(_, _, _)
translate_matches(string, m, collection) ==
    IF m = <<>> THEN string
    ELSE LET match == Head(m)
             has(k) == IF collection[k][2].list
                       THEN \E v \in Range(collection[k][2].v) : chars(v) = match
                       ELSE contains(chars(collection[k][2].v[1]), match)
             found == {k \in DOMAIN collection : has(k)}
         IN  IF found = {} THEN translate_matches(string, Tail(m), collection)
             ELSE translate_matches(
                      replaceInString(string, match,
                          chars(collection[CHOOSE k \in found : \A j \in found : k <= j][1])),
                      Tail(m), collection)

\* TimeSentenceTranslator._translate_collection; collection is the (key, words)
\* items of self.lang.get(collection_id), <<>> when the pack has no such key
_translate_collection(string, collection) ==
    IF collection = <<>> THEN string
    ELSE LET collection_words == chain([k \in DOMAIN collection |-> collection[k][2].v])
         IN  translate_matches(string,
                               inString(string, sorted_words(collection_words)),
                               collection)

\* _unpack_compound_words for a pack whose compound words carry no {parameter}:
\* line 249 skips every one of them
_unpack_compound_words(string, compounds) == string

\* the collections translate runs, in its order (NUMBERS first, lines 316-328)
translate_collections(pack) ==
    <<pack.numbers, pack.time_of_day, pack.days, pack.fractions, pack.durations,
      pack.operators, pack.numbers, pack.other_words, pack.direct_translations>>

\* translate, lines 310-358 with clean_untranslated False: the sentence
\* translated with the loaded pack
RECURSIVE translate_with(_, _)
translate_with(string, collections) ==
    IF collections = <<>> THEN collapse(string)
    ELSE translate_with(the({_translate_collection(string, c) : c \in {Head(collections)}}),
                        Tail(collections))

\* load_language_pack that records the locale as loaded when its file is missing
load_language_pack_marks_failed(tr, code, files) ==
    LET stem == _two_char_locale(code)
    IN  IF stem \in DOMAIN files
        THEN [tr |-> [loaded_lang |-> stem, lang |-> files[stem]], result |-> TRUE]
        ELSE [tr |-> [loaded_lang |-> stem, lang |-> tr.lang], result |-> FALSE]

\* TimeSentenceTranslator.load_language_pack on the translator tr =
\* [loaded_lang, lang]: the translator afterwards and the result. files maps
\* the name of each readable <name>.json under translations/timers to its content.
Translator_load_language_pack(tr, code, files) ==
    LET stem == _two_char_locale(code)
    IN  IF stem \in DOMAIN files
        THEN [tr |-> [loaded_lang |-> stem, lang |-> files[stem]], result |-> TRUE]
        ELSE [tr |-> tr, result |-> FALSE]

\* Normaliser.load_language_pack: the pack, or NoPack for None
Normaliser_load_language_pack(code, files) ==
    LET stem == IF code # chars("normaliser") THEN split_hyphen(code) ELSE code
    IN  IF stem \in DOMAIN files THEN files[stem] ELSE NoPack

\* TimeSentenceTranslator.translate (as Translator.translate_time calls it):
\* the translator afterwards and the sentence returned
translate(tr, string, code, files) ==
    LET stem == _two_char_locale(code)
        load == IF tr.loaded_lang # stem
                THEN Translator_load_language_pack(tr, stem, files)
                ELSE [tr |-> tr, result |-> TRUE]
    IN  IF ~load.result THEN [tr |-> tr, s |-> string]
        ELSE [tr |-> load.tr,
              s |-> the({translate_with(
                            _unpack_compound_words(s0, load.tr.lang.compound_words),
                            translate_collections(load.tr.lang)) :
                         s0 \in {clean_sentence(string, load.tr.lang.decimal_separator)}})]

\* the characters str(v) of a parameter value v
Val(string) == [k |-> "value", v |-> string]

\* a response is a list of text pieces and {param} placeholders;
\* sentence.replace("{k}", str(v)) puts the pieces of v in the place of {k}
replace_param(template, k, v) ==
    chain([i \in DOMAIN template |->
              IF template[i].k = "placeholder" /\ template[i].v = k
              THEN v ELSE <<template[i]>>])

\* translate_response, lines 383-386: the loop over params.items()
RECURSIVE replace_params(_, _)
replace_params(template, params) ==
    IF params = <<>> THEN template
    ELSE replace_params(replace_param(template, Head(params)[1], Head(params)[2]),
                        Tail(params))

\* params.get(key, default) and params[key] = value on a dict kept as the list
\* of its (key, value) items
dict_get(params, key, default) ==
    IF \E i \in DOMAIN params : params[i][1] = key
    THEN params[CHOOSE i \in DOMAIN params : params[i][1] = key][2]
    ELSE default
dict_set(params, key, value) ==
    IF \E i \in DOMAIN params : params[i][1] = key
    THEN [i \in DOMAIN params |-> IF params[i][1] = key THEN <<key, value>> ELSE params[i]]
    ELSE Append(params, <<key, value>>)

\* the key f"time_{locale}", the keys "time_en" and "time", and str(None)
time_key(code) == <<"time_", code>>
time_en == time_key(<<"e", "n">>)
time_param == <<"time">>
str_None == <<Txt("None")>>

\* translate_response with time_en preferred to time_<locale>
translate_response_time_en(tr, sentence_id, params, code, files) ==
    LET language == _two_char_locale(code)
        load == IF tr.loaded_lang = None \/ tr.loaded_lang # language
                THEN Translator_load_language_pack(tr, language, files)
                ELSE [tr |-> tr, result |-> TRUE]
        responses == load.tr.lang.responses
        none == [tr |-> load.tr, returned |-> FALSE, response |-> <<>>,
                 params |-> params]
    IN  IF ~load.result THEN none
        ELSE IF responses = <<>> THEN none
        ELSE IF dict_get(responses, sentence_id, <<>>) = <<>> THEN none
        ELSE LET filled == dict_set(params, time_param,
                               dict_get(params, time_en,
                                        dict_get(params, time_key(code), str_None)))
             IN  [tr |-> load.tr, returned |-> TRUE,
                  response |-> replace_params(dict_get(responses, sentence_id, <<>>), filled),
                  params |-> filled]

\* TimeSentenceTranslator.translate_response on a params dict: the translator
\* afterwards, the sentence returned (None when returned is FALSE) and the
\* params as the call leaves them
translate_response(tr, sentence_id, params, code, files) ==
    LET language == _two_char_locale(code)
        load == IF tr.loaded_lang = None \/ tr.loaded_lang # language
                THEN Translator_load_language_pack(tr, language, files)
                ELSE [tr |-> tr, result |-> TRUE]
        responses == load.tr.lang.responses
        none == [tr |-> load.tr, returned |-> FALSE, response |-> <<>>,
                 params |-> params]
    IN  IF ~load.result THEN none
        ELSE IF responses = <<>> THEN none
        ELSE IF dict_get(responses, sentence_id, <<>>) = <<>> THEN none
        ELSE LET filled == dict_set(params, time_param,
                               dict_get(params, time_key(code),
                                        dict_get(params, time_en, str_None)))
             IN  [tr |-> load.tr, returned |-> TRUE,
                  response |-> replace_params(dict_get(responses, sentence_id, <<>>), filled),
                  params |-> filled]

-----------------------------------------------------------------------------
(* timers.py: TimerManager.get_expiry_from_timerinfo *)

WEEKDAYS ==
    <<"monday", "tuesday", "wednesday", "thursday", "friday", "saturday", "sunday">>

\* list.index(x), 0-based; -1 stands for the ValueError of a missing element
index(list, x) ==
    IF \E i \in DOMAIN list : list[i] = x
    THEN (CHOOSE i \in DOMAIN list : list[i] = x /\ \A j \in 1..(i - 1) : list[j] # x) - 1
    ELSE -1

\* datetime fields of a time t given in seconds since 00:00 of the current day
hour(t) == (t \div 3600) % 24
minute(t) == (t \div 60) % 60
\* datetime.isoweekday() (monday = 1) taken for datetime.weekday()
weekday_isoweekday(t, wd) == ((wd + t \div 86400) % 7) + 1
weekday(t, wd) == (wd + t \div 86400) % 7

\* Returns the mutated timerinfo, the expiry and the exception raised, if any.
\* wd and clock are what dt.datetime.now(tz) reads.
get_expiry_from_timerinfo(timerinfo, wd, clock) ==
    IF timerinfo.is_time
    THEN LET ti   == IF timerinfo.timeofday = "pm" /\ timerinfo.hours < 12
                     THEN [timerinfo EXCEPT !.hours = @ + 12]
                     ELSE timerinfo
             base == timedelta(0, ti.hours, ti.minutes, ti.seconds)
             idx  == index(WEEKDAYS, ti.dayofweek)
             da   == (idx - weekday(base, wd) + 7) % 7
             days_ahead ==
                 IF da = 0 /\ (ti.hours < hour(base)
                               \/ (ti.hours = hour(base) /\ ti.minutes <= minute(base)))
                 THEN 7 ELSE da
             dated == IF ti.dayofweek = "" THEN base
                      ELSE IF ti.dayofweek = "tomorrow" THEN base + timedelta(1, 0, 0, 0)
                      ELSE base + timedelta(days_ahead, 0, 0, 0)
         IN  IF ti.dayofweek # "" /\ ti.dayofweek # "tomorrow" /\ idx = -1
             THEN [timerinfo |-> ti, expiry |-> base, raised |-> "ValueError"]
             ELSE [timerinfo |-> ti,
                   expiry |-> IF dated < clock
                              THEN IF ti.timeofday # ""
                                   THEN dated + timedelta(1, 0, 0, 0)
                                   ELSE dated + timedelta(0, 12, 0, 0)
                              ELSE dated,
                   raised |-> ""]
    ELSE [timerinfo |-> timerinfo,
          expiry |-> clock + timedelta(timerinfo.days, timerinfo.hours,
                                       timerinfo.minutes, timerinfo.seconds),
          raised |-> ""]

-----------------------------------------------------------------------------
(* translator/decoder.py: Decoder.decode *)

\* Returns the mutated build and the formatted result: for a time the day name
\* and the %H:%M fields, for an interval the list of <<value, unit>> parts.
decode(build, wd) ==
    IF build.is_time
    THEN LET b1 == IF build.meridiem = "pm"
                      \/ (build.timeofday = "pm" /\ build.hours < 12)
                   THEN [build EXCEPT !.hours = @ + 12] ELSE build
             b2 == IF b1.special_hour = "noon"
                   THEN [b1 EXCEPT !.hours = 12, !.minutes = 0] ELSE b1
             b  == IF b2.special_hour = "midnight"
                   THEN [b2 EXCEPT !.hours = 0, !.minutes = 0] ELSE b2
             base == timedelta(0, b.hours, b.minutes, b.seconds)
             idx  == index(WEEKDAYS, b.dayofweek)
             da   == (idx - weekday(base, wd) + 7) % 7
             days_ahead ==
                 IF da = 0 /\ (b.hours < hour(base)
                               \/ (b.hours = hour(base) /\ b.minutes <= minute(base)))
                 THEN 7 ELSE da
             dated == IF b.dayofweek = "" THEN base
                      ELSE IF b.dayofweek = "tomorrow" THEN base + timedelta(1, 0, 0, 0)
                      ELSE base + timedelta(days_ahead, 0, 0, 0)
         IN  IF b.dayofweek # "" /\ b.dayofweek # "tomorrow" /\ idx = -1
             THEN [build |-> b, day |-> b.dayofweek, H |-> 0, M |-> 0, parts |-> <<>>,
                   raised |-> "ValueError"]
             ELSE [build |-> b, day |-> b.dayofweek, H |-> hour(dated), M |-> minute(dated),
                   parts |-> <<>>, raised |-> ""]
    ELSE [build |-> build, day |-> "", H |-> 0, M |-> 0,
          parts |-> (IF build.days # 0 THEN << <<build.days, "d">> >> ELSE <<>>)
                    \o (IF build.hours # 0 THEN << <<build.hours, "h">> >> ELSE <<>>)
                    \o (IF build.minutes # 0 THEN << <<build.minutes, "m">> >> ELSE <<>>)
                    \o (IF build.seconds # 0 THEN << <<build.seconds, "s">> >> ELSE <<>>),
          raised |-> ""]

NotDecoded == [day |-> "", H |-> 0, M |-> 0, parts |-> <<>>]

-----------------------------------------------------------------------------
(* timers.py: TimerManagerServices and TimerManager *)

\* TimerManagerServices.decode_time_sentence: the translator afterwards, the
\* translated sentence en, the packs the new Normaliser loaded and the result n
\* of normalise (the method returns (None, None) when n.family is "")
decode_time_sentence(tr, string, code, time_type, files) ==
    the({[tr |-> t.tr, en |-> t.s,
          normalisations |-> Normaliser_load_language_pack(chars("normaliser"), files),
          lang |-> Normaliser_load_language_pack(code, files),
          n |-> normalise(t.s, time_type,
                          Normaliser_load_language_pack(chars("normaliser"), files),
                          Normaliser_load_language_pack(code, files))] :
            t \in {translate(tr, string, code, files)}})

\* TimerManagerServices.create_response: the params of a timer (None: {}) and
\* the call of translate_response. No timer is <<>>; a name None is kept as "".
create_response(tr, response_id, a_timer, code, files) ==
    LET items == << << <<"name">>, IF a_timer.name = "" THEN str_None
                                   ELSE <<Txt(a_timer.name)>> >>,
                     <<time_key(code), <<Val(a_timer.sentence)>> >>,
                     <<time_en, <<Val(a_timer.sentence)>> >>,
                     << <<"snooze_duration">>, <<Val(a_timer.snooze_duration)>> >> >>
        RECURSIVE dict(_)
        dict(kv) == IF kv = <<>> THEN <<>>
                    ELSE dict_set(dict(SubSeq(kv, 1, Len(kv) - 1)),
                                  kv[Len(kv)][1], kv[Len(kv)][2])
    IN  translate_response(tr, response_id,
                           IF ~truthy(a_timer) THEN <<>> ELSE dict(items),
                           code, files)

\* TimerManager.is_duplicate_timer: a timer of the entity with that expires_at
is_duplicate_timer(store_timers, entity_id, expires_at) ==
    {i \in DOMAIN store_timers :
        store_timers[i].entity_id = entity_id /\ store_timers[i].expires_at = expires_at}

\* TimerManager.start_timer on the stored timer i at the time clock: the store
\* and the tasks afterwards. A timer that is due is finished at once
\* (_timer_finished); otherwise a task that waits for expires_at is created and
\* the status becomes RUNNING.
start_timer(store_timers, tasks, i, clock) ==
    IF store_timers[i].expires_at - clock < 1
    THEN [timers |-> [store_timers EXCEPT ![i].status = "expired"],
          timer_tasks |-> [j \in DOMAIN tasks \ {i} |-> tasks[j]]]
    ELSE [timers |-> [store_timers EXCEPT ![i].status = "running"],
          timer_tasks |-> [j \in DOMAIN tasks \cup {i} |->
                              IF j = i THEN store_timers[i].expires_at ELSE tasks[j]]]

\* TimerManager.add_timer: the response id, the timer it names, the TimerInfo
\* as get_expiry_from_timerinfo left it, and the store and tasks afterwards
add_timer(store_timers, tasks, timer_class, entity_id, timer_info, name, extra_info, wd, clock) ==
    LET e == get_expiry_from_timerinfo(timer_info, wd, clock)
        duplicate == is_duplicate_timer(store_timers, entity_id, e.expiry)
        id == Len(store_timers) + 1
        new == [timer_class |-> timer_class,
                timer_type |-> IF timer_info.is_time THEN "time" ELSE "interval",
                original_expires_at |-> e.expiry, expires_at |-> e.expiry,
                name |-> name, entity_id |-> entity_id, status |-> "inactive",
                sentence |-> extra_info.sentence, snooze_duration |-> <<>>,
                timer_info |-> e.timerinfo]
        started == start_timer(Append(store_timers, new), tasks, id, clock)
    IN  IF e.raised # ""
        THEN [raised |-> e.raised, response_id |-> "", timer_id |-> 0,
              timer_info |-> e.timerinfo, timers |-> store_timers, timer_tasks |-> tasks]
        ELSE IF duplicate # {}
        THEN [raised |-> "", response_id |-> "timer_already_exists",
              timer_id |-> CHOOSE i \in duplicate : \A j \in duplicate : i <= j,
              timer_info |-> e.timerinfo, timers |-> store_timers, timer_tasks |-> tasks]
        ELSE [raised |-> "",
              response_id |-> IF name # "" THEN "timer_named_set" ELSE "timer_set",
              timer_id |-> id, timer_info |-> e.timerinfo,
              timers |-> started.timers, timer_tasks |-> started.timer_tasks]

\* TimerManager.snooze_timer: an expired timer gets a new expires_at and is
\* started again; any other timer id gives "timer_error"
snooze_timer(store_timers, tasks, timer_id, timer_info, said, clock) ==
    IF timer_id \in DOMAIN store_timers /\ store_timers[timer_id].status = "expired"
    THEN LET snoozed == [store_timers EXCEPT
                            ![timer_id].expires_at =
                                clock + timedelta(0, timer_info.hours, timer_info.minutes,
                                                  timer_info.seconds),
                            ![timer_id].snooze_duration = said,
                            ![timer_id].status = "snoozed"]
             started == start_timer(snoozed, tasks, timer_id, clock)
         IN  [response_id |-> IF store_timers[timer_id].name # ""
                              THEN "timer_named_snoozed" ELSE "timer_snoozed",
              timer_id |-> timer_id,
              timers |-> started.timers, timer_tasks |-> started.timer_tasks]
    ELSE [response_id |-> "timer_error",
          timer_id |-> IF timer_id \in DOMAIN store_timers THEN timer_id ELSE 0,
          timers |-> store_timers, timer_tasks |-> tasks]

-----------------------------------------------------------------------------
(* Inputs *)

\* largest day count of a field map
MaxDays == 1

\* a decimal string  whole "." digits
decimal(whole, digits) == str(whole) \o <<".">> \o digits

\* Field maps with clock fields and markers, as the time templates and the
\* structures of a language pack capture them (numeric groups are digit strings)
TimeFieldMaps ==
    [days : {None},
     hours : {None, str(4), str(12), str(15)},
     minutes : {None, str(30)},
     seconds : {None},
     fractions : {""},
     operator : {""},
     day : {"", "today", "tomorrow", "monday", "wednesday", "sunday"},
     time_of_day : {"", "am", "pm", "evening"},
     meridiem : {"", "pm"},
     special_hour : {"", "noon", "midnight"}]

\* Field maps with decimal values, fraction words and operators
IntervalFieldMaps ==
    [days : {None} \cup {str(n) : n \in 1..MaxDays} \cup {decimal(1, <<"5">>)},
     hours : {None, str(1), str(5), decimal(1, <<"5">>), decimal(2, <<"2", "5">>)},
     minutes : {None, str(20), str(30), decimal(1, <<"5">>), decimal(0, <<"7", "5">>)},
     seconds : {None, str(30)},
     fractions : {"", "half", "quarter", "threequarter"},
     operator : {"", "and", "after", "before", "minus"},
     day : {"", "monday"},
     time_of_day : {""},
     meridiem : {""},
     special_hour : {""}]

\* A normaliser pack: the word collections as (word, values) items in the
\* order of the file, and the words to remove
NormaliserPack ==
    [direct_translations |-> <<>>,
     durations |-> << <<"hours", <<"hrs">>>> >>,
     operators |-> << <<"after", <<"past">>>>, <<"before", <<"to">>>> >>,
     meridiem |-> <<>>,
     fractions |-> <<>>,
     special_hours |-> << <<"noon", <<"midday">>>> >>,
     remove_words |-> <<"set", "timer", "for", "please">>]

\* The structures of a language pack, as (name, templates) items in the order
\* of the file
Structures ==
    << <<"basic_time",
         << <<P("minutes"), SP, P("operator"), SP, P("hours")>>,
            <<P("fractions"), SP, P("operator"), SP, P("hours")>> >> >>,
       <<"time",
         << <<P("basic_time"), SP, P("time_of_day")>>,
            <<Optional(<<"this", "at">>), P("std_time")>> >> >> >>

\* A language pack (en.json): its word collections as (key, words) items in
\* the order of the file, its structures and its responses
LanguagePack ==
    [numbers |-> << <<"one", List(<<"one">>)>>, <<"five", List(<<"five">>)>>,
                    <<"twenty", List(<<"twenty">>)>> >>,
     time_of_day |-> << <<"pm", List(<<"pm">>)>> >>,
     days |-> << <<"tomorrow", List(<<"tomorrow">>)>> >>,
     fractions |-> << <<"threequarter", List(<<"three quarter">>)>>,
                      <<"quarter", List(<<"quarter">>)>>,
                      <<"half", Str("half")>> >>,
     durations |-> << <<"hours", List(<<"hours", "hour">>)>>,
                      <<"minutes", List(<<"minutes", "minute", "mins">>)>> >>,
     operators |-> << <<"after", List(<<"past", "after">>)>> >>,
     other_words |-> <<>>,
     direct_translations |-> <<>>,
     compound_words |-> <<>>,
     decimal_separator |-> "",
     structures |-> Structures,
     responses |->
        << <<"timer_set", <<Txt("Timer set for "), P(<<"time">>)>> >>,
           <<"timer_named_set", <<P(<<"name">>), Txt(" timer set for "), P(<<"time">>)>> >>,
           <<"timer_error", <<Txt("Unable to decode time or interval information")>> >> >>]

\* A second language pack (de.json): single strings for the fraction words and
\* a decimal separator; no response for timer_named_set
GermanPack ==
    [numbers |-> << <<"five", List(<<"funf">>)>> >>,
     time_of_day |-> <<>>,
     days |-> <<>>,
     fractions |-> << <<"threequarter", Str("dreiviertel")>>,
                      <<"quarter", Str("viertel")>> >>,
     durations |-> << <<"minutes", List(<<"minuten", "minute">>)>> >>,
     operators |-> << <<"after", List(<<"nach">>)>> >>,
     other_words |-> <<>>,
     direct_translations |-> <<>>,
     compound_words |-> <<>>,
     decimal_separator |-> ",",
     structures |-> Structures,
     responses |->
        << <<"timer_set", <<Txt("Timer gestellt auf "), P(<<"time">>)>> >>,
           <<"timer_error", <<Txt("Zeitangabe nicht verstanden")>> >> >>]

\* the sentences that are explored
Sentences ==
    {text(ws) : ws \in
        {<<>>, <<"noon">>, <<"midday">>, <<"5">>, <<"5", "h">>, <<"5", ":", "3", "0">>,
         <<"5", "pm">>, <<"5", " ", "P", "M">>, <<"5", " ", "oclock">>,
         <<"4", " ", "pm", " ", "tomorrow">>, <<"5", " ", "on", " ", "monday">>,
         <<"wednesday", " ", "at", " ", "3", " ", "pm">>,
         <<"sunday", " ", "at", " ", "noon">>, <<"today", " ", "5">>,
         <<"at", " ", "5">>, <<"5", " ", "hours">>, <<"5", " ", "hrs">>,
         <<"for", " ", "5", " ", "minutes">>,
         <<"2", " ", "hours", " ", "3", "0", " ", "minutes">>,
         <<"1", ".", "5", " ", "hours">>, <<"1", " ", "5", " ", "hours">>,
         <<"1", " ", "day">>, <<"3", "0", " ", "seconds">>,
         <<"five", " ", "minutes">>, <<"twenty", " ", "one", " ", "minutes">>,
         <<"2", "0", " ", "before", " ", "5">>, <<"2", "0", " ", "to", " ", "5">>,
         <<"quarter", " ", "after", " ", "4">>,
         <<"quarter", " ", "past", " ", "4", " ", "pm">>,
         <<"half", " ", "after", " ", "5">>,
         <<"set", " ", "timer", " ", "for", " ", "2", "0", " ", "minutes", " ", "please">>,
         <<"x", "y", "z">>, <<"please">>, <<"set", " ", "timer">>,
         <<"this", " ", "5">>}}

\* the weekdays of the current day that are explored: wednesday and sunday
Todays == {index(WEEKDAYS, "wednesday"), index(WEEKDAYS, "sunday")}

\* the clock readings that are explored: 00:00:00, 10:00:00 and 17:30:00
NowTimes == {timedelta(0, 0, 0, 0), timedelta(0, 10, 0, 0), timedelta(0, 17, 30, 0)}

\* TimeSentenceTranslator.__init__: no pack is loaded
NewTranslator == [loaded_lang |-> None, lang |-> NoPack]

\* no response (None)
NoResponse == [returned |-> FALSE, response |-> <<>>]

\* no coroutine is suspended, no timer task exists, no event was fired
NothingInFlight ==
    /\ calls = <<>>
    /\ wait_tasks = <<>>
    /\ events = <<>>

\* the translator and the timer manager take no part: the translator is as
\* constructed, the timer store is empty
NoService ==
    /\ locale = <<"e", "n">>
    /\ translations = <<>>
    /\ loaded_lang = NewTranslator.loaded_lang
    /\ translator_lang = NewTranslator.lang
    /\ en = <<>>
    /\ normalised = <<>>
    /\ renormalised = <<>>
    /\ translated = <<>>
    /\ response = NoResponse
    /\ timers = <<>>
    /\ timer_tasks = <<>>
    /\ NothingInFlight

-----------------------------------------------------------------------------
(* The pipeline  field map -> build_timer_info -> get_expiry_from_timerinfo *)

Init ==
    /\ pc = "matched"
    /\ sentence = <<>>
    /\ normaliser_pack = NoPack
    /\ language_pack = NoPack
    /\ matched = NoPattern
    /\ \/ /\ d \in TimeFieldMaps
          /\ type_hint \in {"time", "interval"}
          /\ today \in Todays
          /\ now \in NowTimes
       \/ /\ d \in IntervalFieldMaps
          /\ type_hint \in {"", "time", "interval"}
          /\ today = index(WEEKDAYS, "wednesday")
          /\ now = timedelta(0, 10, 0, 0)
    /\ timer = TimerInfo
    /\ built = TimerInfo
    /\ expiry = 0
    /\ raised = ""
    /\ decoded = NotDecoded
    /\ NoService

\* Normaliser.build_timer_info on the matched field map
Build ==
    /\ pc = "matched"
    /\ timer' = build_timer_info(d, type_hint)
    /\ built' = build_timer_info(d, type_hint)
    /\ pc' = "built"
    /\ UNCHANGED <<input, matched, d, type_hint, today, now, expiry, raised, decoded, translator, store, concurrent>>

\* TimerManager.get_expiry_from_timerinfo on the built TimerInfo
GetExpiry ==
    /\ pc = "built"
    /\ LET r == get_expiry_from_timerinfo(timer, today, now)
       IN  /\ timer' = r.timerinfo
           /\ expiry' = r.expiry
           /\ raised' = r.raised
    /\ pc' = "resolved"
    /\ UNCHANGED <<input, matched, d, type_hint, built, today, now, decoded, translator, store, concurrent>>

\* Decoder.decode on the built TimerInfo
Decode ==
    /\ pc = "built"
    /\ LET r == decode(timer, today)
       IN  /\ timer' = r.build
           /\ decoded' = [day |-> r.day, H |-> r.H, M |-> r.M, parts |-> r.parts]
           /\ raised' = r.raised
    /\ pc' = "decoded"
    /\ UNCHANGED <<input, matched, d, type_hint, built, today, now, expiry, translator, store, concurrent>>

\* Normaliser.normalise on a sentence, with the packs as they were loaded
Normalise ==
    /\ pc = "start"
    /\ \E n \in {normalise(sentence, type_hint, normaliser_pack, language_pack)} :
           /\ matched' = [family |-> n.family, n |-> n.n]
           /\ d' = n.d
           /\ timer' = n.timer
           /\ built' = n.timer
           /\ raised' = n.raised
           /\ pc' = IF n.raised # "" THEN "raised"
                    ELSE IF n.family = "" THEN "undecodable"
                    ELSE "built"
    /\ UNCHANGED <<input, type_hint, today, now, expiry, decoded, translator, store, concurrent>>

Next == Build \/ GetExpiry \/ Decode

Spec == Init /\ [][Next]_vars

\* The pipeline  sentence -> normalise -> get_expiry_from_timerinfo
InitNormalise ==
    /\ pc = "start"
    /\ sentence \in Sentences
    /\ type_hint \in {"", "time", "interval"}
    /\ \/ normaliser_pack = NormaliserPack /\ language_pack = LanguagePack
       \/ normaliser_pack = NoPack /\ language_pack = LanguagePack
    /\ matched = NoPattern
    /\ d = NoFields
    /\ today \in Todays
    /\ now \in NowTimes
    /\ timer = TimerInfo
    /\ built = TimerInfo
    /\ expiry = 0
    /\ raised = ""
    /\ decoded = NotDecoded
    /\ NoService

NextNormalise == Normalise \/ GetExpiry \/ Decode

SpecNormalise == InitNormalise /\ [][NextNormalise]_vars

\* the files under translations/timers: all of them, and the directory with
\* en.json or de.json missing
AllFiles ==
    (chars("normaliser") :> NormaliserPack) @@ (<<"e", "n">> :> LanguagePack)
        @@ (<<"d", "e">> :> GermanPack)
without(files, stem) == [f \in DOMAIN files \ {stem} |-> files[f]]
FileSets == {AllFiles, without(AllFiles, <<"d", "e">>), without(AllFiles, <<"e", "n">>)}

\* the locale codes that are explored
Locales ==
    {<<"e", "n">>, <<"d", "e">>, <<"d", "e", "-", "D", "E">>,
     <<"d", "e", "_", "D", "E">>, <<"f", "r">>}

\* the sentences the translator is explored on
TranslateSentences ==
    {text(ws) : ws \in
        {<<"5", " ", "minutes">>, <<"5", " ", "hrs">>, <<"5", " ", "pm">>,
         <<"quarter", " ", "past", " ", "5">>,
         <<"three quarter", " ", "past", " ", "5">>,
         <<"quarter", " ", "and", " ", "three quarter">>,
         <<"three", " ", "please", " ", "quarter">>,
         <<"twenty", " ", "one", " ", "minutes">>,
         <<"F", "u", "n", "f", " ", "M", "i", "n", "u", "t", "e", "n">>,
         <<"viertel", " ", "nach", " ", "5">>,
         <<"dreiviertel", " ", "nach", " ", "5">>,
         <<"1", ",", "5", " ", "minuten">>,
         <<"x", "y", "z">>}}

\* the collections _translate_collection is explored on
Collections ==
    {LanguagePack.fractions, LanguagePack.durations, LanguagePack.other_words,
     GermanPack.fractions}

\* the response ids and the params translate_response is explored on
ResponseIds == {"timer_set", "timer_named_set", "timer_error", "timer_snoozed"}
Said == <<Val(text(<<"funf", " ", "minuten">>))>>
SaidEn == <<Val(text(<<"5", " ", "minutes">>))>>
ParamSets(code) ==
    {<<>>,
     << << <<"name">>, <<Txt("tea")>> >> >>,
     << <<time_en, SaidEn>> >>,
     dict_set(<< << <<"name">>, <<Txt("tea")>> >>, <<time_key(code), Said>> >>,
              time_en, SaidEn),
     << <<time_param, <<Txt("noon")>> >>, <<time_key(code), Said>> >>,
     << <<time_key(_two_char_locale(code)), Said>>, <<time_en, SaidEn>> >>,
     << << <<"name">>, <<P(time_param)>> >>, <<time_key(code), Said>> >>}

\* The pipeline  sentence -> translate -> normalise, and the translator's
\* other calls
InitTranslate ==
    /\ pc = "start"
    /\ sentence \in TranslateSentences
    /\ locale \in Locales
    /\ translations \in FileSets
    /\ type_hint \in {"time", "interval"}
    /\ normaliser_pack = NoPack
    /\ language_pack = NoPack
    /\ matched = NoPattern
    /\ d = NoFields
    /\ today = index(WEEKDAYS, "wednesday")
    /\ now = timedelta(0, 10, 0, 0)
    /\ timer = TimerInfo
    /\ built = TimerInfo
    /\ expiry = 0
    /\ raised = ""
    /\ decoded = NotDecoded
    /\ loaded_lang = NewTranslator.loaded_lang
    /\ translator_lang = NewTranslator.lang
    /\ en = <<>>
    /\ normalised = <<>>
    /\ renormalised = <<>>
    /\ translated = <<>>
    /\ response = NoResponse
    /\ timers = <<>>
    /\ timer_tasks = <<>>
    /\ NothingInFlight

\* TimeSentenceTranslator._translate_collection on the cleaned sentence
TranslateCollection ==
    /\ pc = "start"
    /\ \E c \in Collections :
           translated' = [collection |-> c,
                          s |-> _translate_collection(clean_sentence(sentence, ""), c)]
    /\ pc' = "collection"
    /\ UNCHANGED <<input, matched, d, type_hint, timer, built, today, now, expiry,
                   raised, decoded, locale, translations, loaded_lang,
                   translator_lang, en, normalised, renormalised, response, store,
                   concurrent>>

\* TimerManagerServices.decode_time_sentence: the first call on the sentence,
\* a second call on the sentence the first one ran the templates on (of the
\* second call only the sentence it produces is kept, as renormalised)
DecodeTimeSentence ==
    \E pass \in {1, 2} :
        /\ IF pass = 1 THEN pc = "start" ELSE pc \in {"built", "undecodable"}
        /\ \E r \in {decode_time_sentence([loaded_lang |-> loaded_lang, lang |-> translator_lang],
                                          IF pass = 1 THEN sentence ELSE normalised,
                                          locale, type_hint, translations)} :
               /\ loaded_lang' = r.tr.loaded_lang
               /\ translator_lang' = r.tr.lang
               /\ IF pass = 1
                  THEN /\ en' = r.en
                       /\ normaliser_pack' = r.normalisations
                       /\ language_pack' = r.lang
                       /\ normalised' = r.n.s
                       /\ matched' = [family |-> r.n.family, n |-> r.n.n]
                       /\ d' = r.n.d
                       /\ timer' = r.n.timer
                       /\ built' = r.n.timer
                       /\ raised' = r.n.raised
                       /\ pc' = IF r.n.raised # "" THEN "raised"
                                ELSE IF r.n.family = "" THEN "undecodable"
                                ELSE "built"
                       /\ UNCHANGED renormalised
                  ELSE /\ renormalised' = r.n.s
                       /\ pc' = "renormalised"
                       /\ UNCHANGED <<en, normaliser_pack, language_pack, normalised,
                                      matched, d, timer, built, raised>>
        /\ UNCHANGED <<sentence, type_hint, today, now, expiry, decoded, locale,
                       translations, translated, response, store, concurrent>>

\* TimeSentenceTranslator.translate_response
TranslateResponse ==
    /\ pc \in {"start", "built", "undecodable"}
    /\ \E sentence_id \in ResponseIds, given \in ParamSets(locale) :
       \E r \in {translate_response([loaded_lang |-> loaded_lang, lang |-> translator_lang],
                                    sentence_id, given, locale, translations)} :
           /\ loaded_lang' = r.tr.loaded_lang
           /\ translator_lang' = r.tr.lang
           /\ response' = [returned |-> r.returned, response |-> r.response,
                           sentence_id |-> sentence_id, given |-> given,
                           params |-> r.params, cached |-> loaded_lang]
    /\ pc' = "responded"
    /\ UNCHANGED <<input, matched, d, type_hint, timer, built, today, now, expiry,
                   raised, decoded, locale, translations, en, normalised,
                   renormalised, translated, store, concurrent>>

NextTranslate == TranslateCollection \/ DecodeTimeSentence \/ TranslateResponse

SpecTranslate == InitTranslate /\ [][NextTranslate]_vars

\* the calls of the services that are explored
ServiceSentences ==
    {text(ws) : ws \in {<<"x", "y", "z">>, <<"5", " ", "hours">>, <<"5", " ", "pm">>}}
ServiceLocales == {<<"e", "n">>}
MaxTimers == 2
SetTimerCalls ==
    [service : {"set_timer"}, time : ServiceSentences, language : ServiceLocales,
     type : {"timer", "alarm"}, name : {""}, entity_id : {"sensor.a"},
     timer_id : {0}]
SnoozeTimerCalls ==
    [service : {"snooze_timer"}, time : ServiceSentences, language : ServiceLocales,
     type : {""}, name : {""}, entity_id : {""}, timer_id : 1..(MaxTimers + 1)]

\* decode_time_sentence for the calls that are explored, each evaluated once:
\* the pairs (arguments, result)
Translators ==
    {NewTranslator} \cup {[loaded_lang |-> l, lang |-> AllFiles[l]] : l \in ServiceLocales}
Decodings ==
    {<<x, decode_time_sentence(x[1], x[2], x[3], x[4], AllFiles)>> :
        x \in Translators \X ServiceSentences \X ServiceLocales \X {"time", "interval"}}

\* self.decode_time_sentence(timer_time, language=language, time_type=time_type)
\* of a handler, on the files AllFiles
decoding(tr, string, code, time_type) ==
    (CHOOSE p \in Decodings : p[1] = <<tr, string, code, time_type>>)[2]

\* the time_type of the set_timer and snooze_timer handlers for the call data
time_type_of(data) ==
    IF data.service = "set_timer" /\ data.type \in {"reminder", "alarm"}
    THEN "time" ELSE "interval"

\* what a handler returns: the keys of the dict and the response under
\* "response" (returned FALSE: translate_response gave None), the response id
\* and timer it is about; raised when the handler ends in an exception
ServiceResponse(keys, sentence_id, timer_id, e) ==
    [keys |-> keys, sentence_id |-> sentence_id, timer_id |-> timer_id,
     returned |-> e.returned, response |-> e.response, raised |-> ""]
Raised(exception) ==
    [keys |-> {}, sentence_id |-> "", timer_id |-> 0, returned |-> FALSE,
     response |-> <<>>, raised |-> exception]

\* TimerManagerServices._async_handle_set_timer on the call data, dec being
\* what its call of decode_time_sentence left: the translator, the store and
\* the tasks afterwards, and the response
_async_handle_set_timer(dec, store_timers, tasks, data, wd, clock, files) ==
    LET reminder == data.type \in {"reminder", "alarm"}
        error ==
            the({[tr |-> e.tr, timers |-> store_timers, timer_tasks |-> tasks,
                  result |-> ServiceResponse({"response"}, "timer_error", 0, e)] :
                    e \in {create_response(dec.tr, "timer_error", <<>>, data.language, files)}})
        added(a) ==
            IF a.raised # ""
            THEN [tr |-> dec.tr, timers |-> store_timers, timer_tasks |-> tasks,
                  result |-> Raised(a.raised)]
            ELSE the({[tr |-> e.tr, timers |-> a.timers, timer_tasks |-> a.timer_tasks,
                       result |-> ServiceResponse({"timer_id", "timer", "response"},
                                                  a.response_id, a.timer_id, e)] :
                         e \in {create_response(dec.tr, a.response_id, a.timers[a.timer_id],
                                                data.language, files)}})
    IN  IF dec.n.raised # ""
        THEN [tr |-> dec.tr, timers |-> store_timers, timer_tasks |-> tasks,
              result |-> Raised(dec.n.raised)]
        ELSE IF dec.n.family = "" THEN error
        ELSE the({added(a) :
                     a \in {add_timer(store_timers, tasks,
                                      IF reminder THEN "reminder" ELSE data.type,
                                      data.entity_id, dec.n.timer, data.name,
                                      [sentence |-> data.time], wd, clock)}})

\* _async_handle_snooze_timer without the return for  not timer_info
_async_handle_snooze_timer_unchecked(dec, store_timers, tasks, data, wd, clock, files) ==
    the({the({[tr |-> e.tr, timers |-> a.timers, timer_tasks |-> a.timer_tasks,
               result |-> ServiceResponse({"timer_id", "timer", "response"},
                                          a.response_id, a.timer_id, e)] :
                 e \in {create_response(dec.tr, a.response_id,
                                        IF a.timer_id = 0 THEN <<>> ELSE a.timers[a.timer_id],
                                        data.language, files)}}) :
            a \in {snooze_timer(store_timers, tasks, data.timer_id, dec.n.timer, dec.en,
                                clock)}})

\* TimerManagerServices._async_handle_snooze_timer on the call data, dec being
\* what its call of decode_time_sentence left
_async_handle_snooze_timer(dec, store_timers, tasks, data, wd, clock, files) ==
    LET error ==
            the({[tr |-> e.tr, timers |-> store_timers, timer_tasks |-> tasks,
                  result |-> ServiceResponse({"response"}, "timer_error", 0, e)] :
                    e \in {create_response(dec.tr, "timer_error", <<>>, data.language, files)}})
        snoozed(a) ==
            the({[tr |-> e.tr, timers |-> a.timers, timer_tasks |-> a.timer_tasks,
                  result |-> ServiceResponse({"timer_id", "timer", "response"},
                                             a.response_id, a.timer_id, e)] :
                    e \in {create_response(dec.tr, a.response_id,
                                           IF a.timer_id = 0 THEN <<>>
                                           ELSE a.timers[a.timer_id],
                                           data.language, files)}})
    IN  IF dec.n.raised # ""
        THEN [tr |-> dec.tr, timers |-> store_timers, timer_tasks |-> tasks,
              result |-> Raised(dec.n.raised)]
        ELSE IF dec.n.family = "" THEN error
        ELSE the({snoozed(a) :
                     a \in {snooze_timer(store_timers, tasks, data.timer_id,
                                         dec.n.timer, dec.en, clock)}})

\* The services of the timer manager on a store that starts empty
InitService ==
    /\ pc = "idle"
    /\ sentence = <<>>
    /\ locale = <<"e", "n">>
    /\ translations = AllFiles
    /\ type_hint = ""
    /\ normaliser_pack = NoPack
    /\ language_pack = NoPack
    /\ matched = NoPattern
    /\ d = NoFields
    /\ today = index(WEEKDAYS, "wednesday")
    /\ now = timedelta(0, 10, 0, 0)
    /\ timer = TimerInfo
    /\ built = TimerInfo
    /\ expiry = 0
    /\ raised = ""
    /\ decoded = NotDecoded
    /\ loaded_lang = NewTranslator.loaded_lang
    /\ translator_lang = NewTranslator.lang
    /\ en = <<>>
    /\ normalised = <<>>
    /\ renormalised = <<>>
    /\ translated = <<>>
    /\ response = NoResponse
    /\ timers = <<>>
    /\ timer_tasks = <<>>
    /\ NothingInFlight

\* a call of the set_timer or of the snooze_timer service
ServiceCall ==
    \E data \in SetTimerCalls \cup SnoozeTimerCalls :
    \E dec \in {decoding([loaded_lang |-> loaded_lang, lang |-> translator_lang],
                         data.time, data.language, time_type_of(data))} :
    \E r \in {IF data.service = "set_timer"
              THEN _async_handle_set_timer(dec, timers, timer_tasks, data, today, now,
                                           translations)
              ELSE _async_handle_snooze_timer(dec, timers, timer_tasks, data, today, now,
                                              translations)} :
        /\ Len(r.timers) <= MaxTimers
        /\ pc' = data.service
        /\ sentence' = data.time
        /\ locale' = data.language
        /\ type_hint' = time_type_of(data)
        /\ loaded_lang' = r.tr.loaded_lang
        /\ translator_lang' = r.tr.lang
        /\ en' = dec.en
        /\ normaliser_pack' = dec.normalisations
        /\ language_pack' = dec.lang
        /\ normalised' = dec.n.s
        /\ matched' = [family |-> dec.n.family, n |-> dec.n.n]
        /\ d' = dec.n.d
        /\ built' = dec.n.timer
        /\ timer' = dec.n.timer
        /\ raised' = r.result.raised
        /\ response' = r.result
        /\ timers' = r.timers
        /\ timer_tasks' = r.timer_tasks
        /\ UNCHANGED <<today, now, expiry, decoded, translations, renormalised, translated,
                       concurrent>>

\* the end of the day of the clock
EndOfDay == timedelta(1, 0, 0, 0)

\* TimerManager._wait_for_timer: the sleep of the task of timer i ends at its
\* expires_at, and the timer, unless it was given another expires_at, is
\* finished (_timer_finished): its status becomes EXPIRED, its task is dropped
TimerFinished ==
    \E i \in DOMAIN timer_tasks :
        /\ timer_tasks[i] < EndOfDay
        /\ now' = IF now < timer_tasks[i] THEN timer_tasks[i] ELSE now
        /\ IF timers[i].expires_at = timer_tasks[i]
           THEN /\ timers' = [timers EXCEPT ![i].status = "expired"]
                /\ timer_tasks' = [j \in DOMAIN timer_tasks \ {i} |-> timer_tasks[j]]
           ELSE UNCHANGED <<timers, timer_tasks>>
        /\ pc' = "timer_finished"
        /\ UNCHANGED <<input, matched, d, type_hint, timer, built, today, expiry,
                       raised, decoded, translator, concurrent>>

NextService == ServiceCall \/ TimerFinished

SpecService == InitService /\ [][NextService]_vars

-----------------------------------------------------------------------------
(* Calls on the one TimeSentenceTranslator that Translator holds, as          *)
(* coroutines on the event loop; load_language_pack runs in an executor thread *)

MaxCalls == 2

\* the calls that are explored: translate on a sentence, translate_response
\* on the response id timer_set
CallLocales == {<<"e", "n">>, <<"d", "e">>, <<"d", "e", "-", "D", "E">>, <<"f", "r">>}
TranslatorCalls ==
    [kind : {"translate"},
     sentence : {<<"F", "u", "n", "f", " ", "M", "i", "n", "u", "t", "e", "n">>,
                 text(<<"5", " ", "hrs">>)},
     locale : CallLocales]
    \cup [kind : {"translate_response"}, sentence : {<<>>}, locale : CallLocales]

\* the test before the load: translate, line 303, and translate_response,
\* line 365 (self.load_language_pack is a bound method, which is true)
needs_load(kind, cached, stem) ==
    IF kind = "translate" THEN cached # stem
    ELSE cached = None \/ cached # stem

\* a call as it starts: cached is loaded_lang as the call found it
NewCall(call, cached, load) ==
    [kind |-> call.kind, sentence |-> call.sentence, locale |-> call.locale,
     cached |-> cached, attempted |-> load, result |-> ~load,
     pc |-> IF load THEN "load" ELSE "run",
     pack |-> NoPack, returned |-> FALSE, out |-> <<>>]

InitCalls ==
    /\ pc = "idle"
    /\ sentence = <<>>
    /\ locale = <<"e", "n">>
    /\ translations \in FileSets
    /\ type_hint = ""
    /\ normaliser_pack = NoPack
    /\ language_pack = NoPack
    /\ matched = NoPattern
    /\ d = NoFields
    /\ today = index(WEEKDAYS, "wednesday")
    /\ now = timedelta(0, 10, 0, 0)
    /\ timer = TimerInfo
    /\ built = TimerInfo
    /\ expiry = 0
    /\ raised = ""
    /\ decoded = NotDecoded
    /\ loaded_lang = NewTranslator.loaded_lang
    /\ translator_lang = NewTranslator.lang
    /\ en = <<>>
    /\ normalised = <<>>
    /\ renormalised = <<>>
    /\ translated = <<>>
    /\ response = NoResponse
    /\ timers = <<>>
    /\ timer_tasks = <<>>
    /\ NothingInFlight

\* what a step on the translator leaves alone
CallFrame ==
    UNCHANGED <<input, matched, d, type_hint, timer, built, today, now, expiry, raised,
                decoded, locale, translations, en, normalised, renormalised, translated,
                response, store, wait_tasks, events>>

\* translate or translate_response up to  await async_add_executor_job(
\* self.load_language_pack, locale): the call finds another locale cached and
\* is suspended until the executor has run the load
CallAwaitsLoad ==
    /\ Len(calls) < MaxCalls
    /\ \E call \in TranslatorCalls :
           /\ needs_load(call.kind, loaded_lang, _two_char_locale(call.locale))
           /\ calls' = Append(calls, NewCall(call, loaded_lang, TRUE))
    /\ pc' = "awaits_load"
    /\ UNCHANGED <<loaded_lang, translator_lang>>
    /\ CallFrame

\* load_language_pack in the executor thread of call c. The thread is not the
\* event loop: between  self.lang = json.load(f)  and  self.loaded_lang = lang
\* the event loop and other executor threads run.
ExecutorLoads ==
    \E c \in DOMAIN calls :
        /\ calls[c].pc \in {"load", "lang_set"}
        /\ \E r \in {Translator_load_language_pack(
                         [loaded_lang |-> loaded_lang, lang |-> translator_lang],
                         _two_char_locale(calls[c].locale), translations)} :
               IF r.result /\ calls[c].pc = "load"
               THEN /\ translator_lang' = r.tr.lang
                    /\ calls' = [calls EXCEPT ![c].pc = "lang_set"]
                    /\ UNCHANGED loaded_lang
               ELSE /\ loaded_lang' = r.tr.loaded_lang
                    /\ translator_lang' = IF r.result THEN translator_lang ELSE r.tr.lang
                    /\ calls' = [calls EXCEPT ![c].pc = "loaded", ![c].result = r.result]
        /\ pc' = "executor"
        /\ CallFrame

\* The turn of the event loop in which a call runs from its test of
\* loaded_lang, when that finds its locale cached, or from the end of its
\* await, to its return: it reads self.lang as it is in this turn.
CallTranslates ==
    \E c \in 1..MaxCalls :
        /\ c <= Len(calls) + 1
        /\ \E call \in IF c > Len(calls)
                       THEN {NewCall(new, loaded_lang, FALSE) : new \in TranslatorCalls}
                       ELSE {calls[c]} :
           \E tr \in {[loaded_lang |-> _two_char_locale(call.locale),
                       lang |-> translator_lang]} :
               /\ IF c > Len(calls)
                  THEN ~needs_load(call.kind, loaded_lang, _two_char_locale(call.locale))
                  ELSE call.pc = "loaded"
               /\ \E r \in {IF ~call.result
                            THEN [returned |-> call.kind = "translate", pack |-> NoPack,
                                  out |-> call.sentence]
                            ELSE IF call.kind = "translate"
                            THEN [returned |-> TRUE, pack |-> translator_lang,
                                  out |-> translate(tr, call.sentence, call.locale,
                                                    translations).s]
                            ELSE [returned |-> TRUE, pack |-> translator_lang,
                                  out |-> translate_response(tr, "timer_set", <<>>,
                                                             call.locale,
                                                             translations).response]} :
                      calls' = [k \in 1..(IF c > Len(calls) THEN c ELSE Len(calls)) |->
                                   IF k = c
                                   THEN [call EXCEPT !.pc = "done", !.pack = r.pack,
                                                     !.returned = r.returned,
                                                     !.out = r.out]
                                   ELSE calls[k]]
        /\ pc' = "returned"
        /\ UNCHANGED <<loaded_lang, translator_lang>>
        /\ CallFrame

\* the calls that have not returned
InFlight == {c \in DOMAIN calls : calls[c].pc # "done"}

NextInterleaved == CallAwaitsLoad \/ ExecutorLoads \/ CallTranslates

\* calls that interleave at their awaits
SpecInterleaved == InitCalls /\ [][NextInterleaved]_vars

\* a sequence of calls: each call is awaited before the next one is made
OneAtATime == Cardinality(InFlight) <= 1

NextCalls ==
    \/ CallAwaitsLoad /\ OneAtATime'
    \/ ExecutorLoads /\ OneAtATime'
    \/ CallTranslates /\ OneAtATime'

SpecCalls == InitCalls /\ [][NextCalls]_vars

-----------------------------------------------------------------------------
(* timers.py: start_timer, cancel_timer and the task of _wait_for_timer, turn  *)
(* by turn of the event loop. A coroutine runs from one suspension to the     *)
(* next without interruption; it is suspended in asyncio.sleep and in the     *)
(* await of VATimerStore.updated (the listeners and the save). The sleeps end *)
(* in any order.                                                              *)

\* TimerManager._fire_event with no test of the store
_fire_event_unchecked(store_timers, evs, timer_id, event_type) ==
    Append(evs, <<timer_id, event_type>>)

\* TimerManager._fire_event: the events on the bus afterwards. The event is
\* fired only for a timer that is in the store.
_fire_event(store_timers, evs, timer_id, event_type) ==
    IF timer_id \in DOMAIN store_timers
    THEN Append(evs, <<timer_id, event_type>>)
    ELSE evs

\* VATimerStore.update_status up to its await of self.updated: the status is
\* written before the coroutine is suspended
update_status(store_timers, timer_id, status) ==
    [store_timers EXCEPT ![timer_id].status = status]

\* TimerManager._timer_finished up to the await inside update_status;
\* self.timers[timer_id] raises KeyError for a timer that left the store
_timer_finished(store_timers, evs, timer_id) ==
    IF timer_id \in DOMAIN store_timers
    THEN [timers |-> update_status(store_timers, timer_id, "expired"),
          events |-> _fire_event(store_timers, evs, timer_id, "expired"),
          pc |-> "updating"]
    ELSE [timers |-> store_timers,
          events |-> _fire_event(store_timers, evs, timer_id, "expired"),
          pc |-> "raised"]

\* dict.pop(key, None)
pop(dict, key) == [k \in DOMAIN dict \ {key} |-> dict[k]]

\* dict[key] = value
put(dict, key, value) == [k \in DOMAIN dict \cup {key} |-> IF k = key THEN value ELSE dict[k]]

\* start_timer that creates the task and leaves the status as it is
start_timer_without_status(store_timers, tt, wt, evs, i, clock) ==
    LET total_seconds == store_timers[i].expires_at - clock
        warning == store_timers[i].pre_expire_warning
        task == [expires_at |-> store_timers[i].expires_at,
                 fire_warning |-> ~(warning # 0 /\ warning >= total_seconds),
                 pc |-> "sleep"]
    IN  IF total_seconds < 1
        THEN LET f == _timer_finished(store_timers, evs, i)
             IN  [timers |-> f.timers, timer_tasks |-> tt, wait_tasks |-> wt,
                  events |-> f.events, pc |-> "finishing"]
        ELSE [timers |-> store_timers,
              timer_tasks |-> put(tt, i, store_timers[i].expires_at),
              wait_tasks |-> put(wt, i, task),
              events |-> evs,
              pc |-> IF store_timers[i].status # "running" THEN "started" ELSE "done"]

\* TimerManager.start_timer on the stored timer i, up to its first suspension:
\* a timer that is due is finished (_timer_finished); otherwise the task is
\* created and, for a timer that is not RUNNING, update_status writes RUNNING
\* before the first await of the call. tt is timer_tasks, wt the tasks.
start_timer_task(store_timers, tt, wt, evs, i, clock) ==
    LET total_seconds == store_timers[i].expires_at - clock
        warning == store_timers[i].pre_expire_warning
        task == [expires_at |-> store_timers[i].expires_at,
                 fire_warning |-> ~(warning # 0 /\ warning >= total_seconds),
                 pc |-> "sleep"]
    IN  IF total_seconds < 1
        THEN LET f == _timer_finished(store_timers, evs, i)
             IN  [timers |-> f.timers, timer_tasks |-> tt, wait_tasks |-> wt,
                  events |-> f.events, pc |-> "finishing"]
        ELSE [timers |-> IF store_timers[i].status # "running"
                         THEN update_status(store_timers, i, "running")
                         ELSE store_timers,
              timer_tasks |-> put(tt, i, store_timers[i].expires_at),
              wait_tasks |-> put(wt, i, task),
              events |-> evs,
              pc |-> IF store_timers[i].status # "running" THEN "started" ELSE "done"]

\* TimerManager._wait_for_timer for timer i from the end of a sleep to the next
\* suspension. After the first sleep: a timer that left the store makes the
\* debug call raise AttributeError (timer.pre_expire_warning of None); a timer
\* with the task's expires_at gets _pre_expire_warning (WARNING is fired for a
\* RUNNING timer, which then sleeps again) or _timer_finished. After the
\* second sleep: _timer_finished. After the await in update_status:
\* self.timer_tasks.pop(timer_id, None).
_wait_for_timer(store_timers, tt, evs, task, i) ==
    LET same == [timers |-> store_timers, timer_tasks |-> tt, events |-> evs]
        finished == _timer_finished(store_timers, evs, i)
    IN  CASE task.pc = "sleep" ->
               IF i \notin DOMAIN store_timers THEN same @@ [pc |-> "raised"]
               ELSE IF store_timers[i].expires_at # task.expires_at
               THEN same @@ [pc |-> "done"]
               ELSE IF task.fire_warning /\ store_timers[i].pre_expire_warning # 0
               THEN IF store_timers[i].status = "running"
                    THEN [timers |-> store_timers, timer_tasks |-> tt,
                          events |-> _fire_event(store_timers, evs, i, "warning"),
                          pc |-> "warned"]
                    ELSE same @@ [pc |-> "done"]
               ELSE [timers |-> finished.timers, timer_tasks |-> tt,
                     events |-> finished.events, pc |-> finished.pc]
          [] task.pc = "warned" ->
               [timers |-> finished.timers, timer_tasks |-> tt,
                events |-> finished.events, pc |-> finished.pc]
          [] task.pc = "updating" ->
               [timers |-> store_timers, timer_tasks |-> pop(tt, i), events |-> evs,
                pc |-> "done"]

\* the timers that are explored, as add_timer (INACTIVE), snooze_timer
\* (SNOOZED) and async_setup after a restart (RUNNING) hand them to
\* start_timer: due at once, due within the warning time, due after it, and
\* with no warning time
StoredTimers(clock) ==
    {[expires_at |-> clock, pre_expire_warning |-> 10, status |-> "inactive"],
     [expires_at |-> clock + 5, pre_expire_warning |-> 10, status |-> "inactive"],
     [expires_at |-> clock + 60, pre_expire_warning |-> 10, status |-> "inactive"],
     [expires_at |-> clock + 60, pre_expire_warning |-> 0, status |-> "snoozed"],
     [expires_at |-> clock + 60, pre_expire_warning |-> 10, status |-> "running"]}

TimerIds == 1..MaxTimers

InitTimerTasks ==
    /\ pc = "idle"
    /\ sentence = <<>>
    /\ locale = <<"e", "n">>
    /\ translations = AllFiles
    /\ type_hint = ""
    /\ normaliser_pack = NoPack
    /\ language_pack = NoPack
    /\ matched = NoPattern
    /\ d = NoFields
    /\ today = index(WEEKDAYS, "wednesday")
    /\ now = timedelta(0, 10, 0, 0)
    /\ timer = TimerInfo
    /\ built = TimerInfo
    /\ expiry = 0
    /\ raised = ""
    /\ decoded = NotDecoded
    /\ loaded_lang = NewTranslator.loaded_lang
    /\ translator_lang = NewTranslator.lang
    /\ en = <<>>
    /\ normalised = <<>>
    /\ renormalised = <<>>
    /\ translated = <<>>
    /\ response = NoResponse
    /\ timers \in [TimerIds -> StoredTimers(now)]
    /\ timer_tasks = <<>>
    /\ NothingInFlight

\* what a step of the timer manager leaves alone
TimerFrame ==
    UNCHANGED <<pc, input, matched, d, type_hint, timer, built, today, now, expiry,
                raised, decoded, translator>>

\* start_timer was called for timer i
Started(i) ==
    \E c \in DOMAIN calls : calls[c].kind = "start_timer" /\ calls[c].timer_id = i

\* TimerManager.start_timer(timer) for the stored timer i, to its first
\* suspension. The call is kept as call i, a cancel_timer call for the timer
\* as call MaxTimers + i.
StartTimer(i) ==
    /\ i \in DOMAIN timers
    /\ ~Started(i)
    /\ \E r \in {start_timer_task(timers, timer_tasks, wait_tasks, events, i, now)} :
           /\ timers' = r.timers
           /\ timer_tasks' = r.timer_tasks
           /\ wait_tasks' = r.wait_tasks
           /\ events' = r.events
           /\ calls' = put(calls, i, [kind |-> "start_timer", timer_id |-> i, pc |-> r.pc])
    /\ TimerFrame

\* TimerManager.cancel_timer(timer_id=i) to its first suspension:
\* VATimerStore.cancel_timer pops the timer and awaits self.updated
CancelTimer(i) ==
    /\ i \in DOMAIN timers
    /\ timers' = pop(timers, i)
    /\ calls' = put(calls, MaxTimers + i,
                    [kind |-> "cancel_timer", timer_id |-> i, pc |-> "cancelling"])
    /\ UNCHANGED <<timer_tasks, wait_tasks, events>>
    /\ TimerFrame

\* a suspended start_timer or cancel_timer call goes on to its return:
\* start_timer fires STARTED, or for a timer that was due ends _timer_finished
\* with self.timer_tasks.pop; cancel_timer pops the task of the timer and
\* cancels it unless it is done
CallResumes(c) ==
    /\ c \in DOMAIN calls
    /\ calls[c].pc # "done"
    /\ calls' = [calls EXCEPT ![c].pc = "done"]
    /\ LET i == calls[c].timer_id
       IN  CASE calls[c].pc = "started" ->
                  /\ events' = _fire_event(timers, events, i, "started")
                  /\ UNCHANGED <<timers, timer_tasks, wait_tasks>>
             [] calls[c].pc = "finishing" ->
                  /\ timer_tasks' = pop(timer_tasks, i)
                  /\ UNCHANGED <<timers, wait_tasks, events>>
             [] calls[c].pc = "cancelling" ->
                  /\ timer_tasks' = pop(timer_tasks, i)
                  /\ wait_tasks' = IF i \in DOMAIN timer_tasks
                                      /\ wait_tasks[i].pc \notin {"done", "raised"}
                                   THEN [wait_tasks EXCEPT ![i].pc = "cancelled"]
                                   ELSE wait_tasks
                  /\ UNCHANGED <<timers, events>>
    /\ TimerFrame

\* the task of timer i runs from the end of its sleep, or of its await, to its
\* next suspension or to its end
TaskResumes(i) ==
    /\ i \in DOMAIN wait_tasks
    /\ wait_tasks[i].pc \in {"sleep", "warned", "updating"}
    /\ \E r \in {_wait_for_timer(timers, timer_tasks, events, wait_tasks[i], i)} :
           /\ timers' = r.timers
           /\ timer_tasks' = r.timer_tasks
           /\ events' = r.events
           /\ wait_tasks' = [wait_tasks EXCEPT ![i].pc = r.pc]
    /\ UNCHANGED calls
    /\ TimerFrame

NextTimerTasks ==
    \E i \in TimerIds :
        \/ StartTimer(i)
        \/ CancelTimer(i)
        \/ CallResumes(i)
        \/ CallResumes(MaxTimers + i)
        \/ TaskResumes(i)

SpecTimerTasks == InitTimerTasks /\ [][NextTimerTasks]_vars

\* The event loop runs every coroutine that is ready and every sleep ends:
\* each start of a timer, each suspended call and each task takes its next step
\* (cancel_timer is a request from outside and need not happen).
SpecTimerTasksFair ==
    /\ SpecTimerTasks
    /\ \A i \in TimerIds :
           /\ WF_vars(TaskResumes(i))
           /\ WF_vars(CallResumes(i))
           /\ WF_vars(CallResumes(MaxTimers + i))

-----------------------------------------------------------------------------
(* Properties of the resolver *)

\* the clock time of a TimerInfo counted from 00:00 of the current day
BaseTime(t) == timedelta(0, t.hours, t.minutes, t.seconds)

\* get_expiry_from_timerinfo returned a time for a TimerInfo that is a clock time
ResolvedTime == pc = "resolved" /\ built.is_time /\ raised = ""

\* C1: a weekday that names today's weekday adds 0 days when the time of day
\* is still later than the current time and 7 days when it is at or before it.
C1_SameWeekday ==
    (/\ ResolvedTime
     /\ built.dayofweek \in Range(WEEKDAYS)
     /\ index(WEEKDAYS, built.dayofweek) = today
     /\ timer.hours \in 0..23 /\ timer.minutes \in 0..59)
    => expiry = BaseTime(timer)
                + (IF BaseTime(timer) > now THEN 0 ELSE timedelta(7, 0, 0, 0))

\* C2: special_hour "noon" resolves to 12:00 and "midnight" to 00:00 on the
\* resolved date, for every dayofweek and every current time.
C2_SpecialHour ==
    ResolvedTime =>
        /\ built.special_hour = "noon" => (hour(expiry) = 12 /\ minute(expiry) = 0)
        /\ built.special_hour = "midnight" => (hour(expiry) = 0 /\ minute(expiry) = 0)

\* C3: dayofweek "today" resolves without error to today's date at the parsed
\* hours and minutes, with no day adjustment.
C3_Today ==
    (pc = "resolved" /\ built.is_time /\ built.dayofweek = "today")
    => (raised = "" /\ expiry = BaseTime(timer))

DaysAfterToday(t) == t \div 86400

\* the fields of a TimerInfo are those of a time of day
ClockTime(t) == t.hours \in 0..23 /\ t.minutes \in 0..59 /\ t.seconds \in 0..59

\* C11: a named weekday other than today's weekday resolves to the next
\* occurrence of that weekday, 1 to 6 days after today, at the clock time of the
\* TimerInfo (on a Wednesday "monday" is 5 days ahead); "tomorrow" resolves to
\* exactly 1 day after today at that clock time. (TimerInfos whose fields are
\* a time of day.)
C11_NextWeekday ==
    (ResolvedTime /\ ClockTime(timer)) =>
        /\ (built.dayofweek \in Range(WEEKDAYS)
            /\ index(WEEKDAYS, built.dayofweek) # today)
           => /\ DaysAfterToday(expiry) \in 1..6
              /\ (today + DaysAfterToday(expiry)) % 7 = index(WEEKDAYS, built.dayofweek)
              /\ expiry = BaseTime(timer) + timedelta(DaysAfterToday(expiry), 0, 0, 0)
        /\ (built.dayofweek = "monday" /\ today = index(WEEKDAYS, "wednesday"))
           => DaysAfterToday(expiry) = 5
        /\ built.dayofweek = "tomorrow"
           => expiry = BaseTime(timer) + timedelta(1, 0, 0, 0)

C11_Witness ==
    /\ ResolvedTime
    /\ built.dayofweek = "monday"
    /\ today = index(WEEKDAYS, "wednesday")
    /\ built.timeofday = "pm" /\ built.hours = 4
    /\ expiry = timedelta(5, 16, 0, 0)

\* C16: resolution is pure: after get_expiry_from_timerinfo (or Decoder.decode)
\* the TimerInfo that was passed in, which add_timer then stores, has every
\* field as it was built, and resolving it again at the same instant gives the
\* same expiry.
C16_Pure ==
    /\ pc \in {"resolved", "decoded"} => timer = built
    /\ (pc = "resolved" /\ raised = "")
       => get_expiry_from_timerinfo(timer, today, now).expiry = expiry

-----------------------------------------------------------------------------
(* Properties of build_timer_info *)

Built == pc # "matched"

\* C6: is_time is true if any of dayofweek, meridiem, special_hour, timeofday
\* is non-empty; otherwise false if days or seconds is non-zero; otherwise it
\* is (type_hint = "time"), and true when no hint is given.
C6_Classification ==
    Built =>
        built.is_time =
            (IF built.dayofweek # "" \/ built.meridiem # ""
                \/ built.special_hour # "" \/ built.timeofday # ""
             THEN TRUE
             ELSE IF built.days # 0 \/ built.seconds # 0
                  THEN FALSE
                  ELSE type_hint \in {"time", ""})

C6_Witness ==
    /\ pc = "built"
    /\ built.dayofweek = "" /\ built.meridiem = "" /\ built.special_hour = ""
    /\ built.timeofday = "" /\ built.days = 0 /\ built.seconds = 0
    /\ built.hours = 5
    /\ type_hint = "interval"
    /\ ~built.is_time

\* the amount a fraction word adds: int(unit * multiplier)
FractionOf(unit, fraction) == (unit * multiplier(fraction)) \div 4

\* C7: a fraction word changes exactly one field: seconds if minutes is
\* non-zero, else minutes if hours is non-zero, else hours if days is
\* non-zero, else minutes.
C7_OneFractionRule ==
    (Built /\ d.fractions # "" /\ d.operator \notin {"before", "minus"})
    => LET p == parse_fields(d)
           f == d.fractions
           q == IF p.minutes # 0 THEN [p EXCEPT !.seconds = @ + FractionOf(60, f)]
                ELSE IF p.hours # 0 THEN [p EXCEPT !.minutes = @ + FractionOf(60, f)]
                ELSE IF p.days # 0 THEN [p EXCEPT !.hours = @ + FractionOf(24, f)]
                ELSE [p EXCEPT !.minutes = @ + FractionOf(60, f)]
       IN  built = [q EXCEPT !.is_time = built.is_time]

\* C8: operator "before" or "minus" inverts the lower unit after fractions are
\* resolved (minutes -> 60 - minutes with hours - 1, else hours -> 24 - hours
\* with days - 1); "and" and "after" change no field.
C8_OperatorInversion ==
    Built =>
        LET f == apply_fraction(parse_fields(d), d.fractions)
            same(fields) == \A k \in fields : built[k] = f[k]
            markers == {"dayofweek", "meridiem", "timeofday", "special_hour"}
        IN  /\ d.operator \in {"before", "minus"} /\ f.minutes > 0
                => /\ built.minutes = 60 - f.minutes
                   /\ built.hours = f.hours - 1
                   /\ same(markers \cup {"days", "seconds"})
            /\ d.operator \in {"before", "minus"} /\ f.minutes <= 0 /\ f.hours > 0
                => /\ built.hours = 24 - f.hours
                   /\ built.days = f.days - 1
                   /\ same(markers \cup {"minutes", "seconds"})
            /\ d.operator \in {"before", "minus"} /\ f.minutes <= 0 /\ f.hours <= 0
                => same(markers \cup {"days", "hours", "minutes", "seconds"})
            /\ d.operator \in {"", "and", "after"}
                => same(markers \cup {"days", "hours", "minutes", "seconds"})
            /\ (d.operator = "before" /\ d.hours = str(5) /\ d.days = None
                /\ d.seconds = None /\ d.minutes = str(20) /\ d.fractions = "")
                => (built.hours = 4 /\ built.minutes = 40)
            /\ (d.operator = "before" /\ d.hours = str(5) /\ d.days = None
                /\ d.seconds = None /\ d.minutes = None /\ d.fractions = "quarter")
                => (built.hours = 4 /\ built.minutes = 45)

C8_Witness ==
    /\ pc = "built"
    /\ d.operator = "before" /\ d.fractions = "quarter"
    /\ d.hours = str(5) /\ d.minutes = None /\ d.days = None
    /\ built.hours = 4 /\ built.minutes = 45

\* the whole part of a decimal string, and int(fractional part * k)
WholePart(v) ==
    IF v = None THEN 0
    ELSE IF \E i \in DOMAIN v : v[i] = "."
         THEN int(SubSeq(v, 1, (CHOOSE i \in DOMAIN v : v[i] = ".") - 1))
         ELSE int(v)
CarriedDown(v, k) ==
    IF v = None \/ \A i \in DOMAIN v : v[i] # "." THEN 0
    ELSE LET i == CHOOSE j \in DOMAIN v : v[j] = "."
             digits == SubSeq(v, i + 1, Len(v))
         IN  (int(digits) * k) \div Pow10(Len(digits))

\* C9: the fractional part of a decimal field is carried down one unit level
\* (x24, x60, x60), truncated, and added to the value parsed for the next
\* lower field; the field keeps its whole part.
C9_DecimalCarry ==
    (Built /\ d.fractions = "" /\ d.operator \notin {"before", "minus"})
    => /\ built.days = WholePart(d.days)
       /\ built.hours = WholePart(d.hours) + CarriedDown(d.days, 24)
       /\ built.minutes = WholePart(d.minutes) + CarriedDown(d.hours, 60)
       /\ built.seconds = WholePart(d.seconds) + CarriedDown(d.minutes, 60)
       /\ (d.hours = decimal(1, <<"5">>) /\ d.days = None /\ d.minutes = None)
            => (built.hours = 1 /\ built.minutes = 30)
       /\ (d.hours = decimal(1, <<"5">>) /\ d.minutes = str(20))
            => built.minutes = 50

C9_Witness ==
    /\ pc = "built"
    /\ d.fractions = "" /\ d.operator = ""
    /\ d.hours = decimal(1, <<"5">>) /\ d.minutes = str(20) /\ d.days = None
    /\ built.hours = 1 /\ built.minutes = 50

-----------------------------------------------------------------------------
(* Properties of normalise *)

\* normalise returned a TimerInfo whose matched fields carry no marker and no
\* day count or seconds value
TieCase ==
    /\ pc = "built"
    /\ matched.family # ""
    /\ d.day = "" /\ d.meridiem = "" /\ d.special_hour = "" /\ d.time_of_day = ""
    /\ d.days = None /\ d.seconds = None
    /\ built.days = 0 /\ built.seconds = 0

\* C5 as stated: in a tie case is_time is true exactly when the hint passed to
\* normalise is "time" or absent, whichever template matched.
C5_HintBreaksTies ==
    TieCase => (built.is_time <=> type_hint \in {"time", ""})

\* C5 amended: in a tie case is_time is true when a standard-time template
\* matched, false when the generic duration pattern matched, and true exactly
\* when the hint is "time" or absent when a language structure matched.
C5_HintBreaksStructureTies ==
    TieCase =>
        /\ matched.family = "std_time" => built.is_time
        /\ matched.family = "durations" => ~built.is_time
        /\ matched.family = "structure" => (built.is_time <=> type_hint \in {"time", ""})

\* C5 witness: a standard-time template matched a bare number under the hint
\* "interval" and the TimerInfo is a time.
C5_Witness ==
    /\ TieCase
    /\ matched.family = "std_time"
    /\ type_hint = "interval"
    /\ built.is_time

\* normalise ran with both packs loaded
Normalised == pc # "start" /\ truthy(normaliser_pack) /\ truthy(language_pack)

\* the places of the templates of a list that match a sentence
Matching(templates, s) == {k \in DOMAIN templates : run_regex(templates[k], s).matched}

\* C12: normalise returns the match of the first template that matches the
\* cleaned sentence in the order: standard-time templates in list order, then
\* the structure templates of the language pack in pack order, then the
\* duration pattern; a sentence matched by a standard-time template and by the
\* duration pattern ("5h") gets the standard-time fields and is_time true.
C12_PhaseOrder ==
    Normalised =>
        \A s \in {cleaned(sentence, normaliser_pack, language_pack)} :
        \A std \in {Matching(STD_TIME_PATTERNS, s)} :
        \A structure \in {Matching(structure_patterns(language_pack.structures), s)} :
        \A durations \in {Matching(<< <<Raw(make_duration_pattern)>> >>, s)} :
            /\ std # {}
                => /\ matched.family = "std_time"
                   /\ matched.n \in std /\ \A k \in std : matched.n <= k
                   /\ d = run_regex(STD_TIME_PATTERNS[matched.n], s).d
                   /\ built.is_time
            /\ (std = {} /\ structure # {})
                => /\ matched.family = "structure"
                   /\ matched.n \in structure /\ \A k \in structure : matched.n <= k
            /\ (std = {} /\ structure = {} /\ durations # {})
                => matched.family = "durations"
            /\ (std = {} /\ structure = {} /\ durations = {})
                => matched.family = ""
            /\ sentence = text(<<"5", "h">>)
                => /\ std # {} /\ durations # {}
                   /\ built.hours = 5 /\ built.minutes = 0 /\ built.is_time

\* C12 witness: "5h" is matched by a standard-time template and by the
\* duration pattern and is returned as the time 5:00
C12_Witness ==
    /\ pc = "built"
    /\ sentence = text(<<"5", "h">>)
    /\ matched.family = "std_time"
    /\ run_regex(<<Raw(make_duration_pattern)>>, sentence).matched
    /\ built.hours = 5 /\ built.is_time

\* the number a captured group states (0 for a group that is absent)
Stated(v) == IF v = None THEN 0 ELSE int(v)

\* no captured number of a field map has a decimal point
WholeNumbers(dd) ==
    \A v \in {dd.days, dd.hours, dd.minutes, dd.seconds} :
        v = None \/ \A i \in DOMAIN v : v[i] # "."

\* C17: a sentence matched by the duration pattern, its numbers whole, gives a
\* TimerInfo whose days/hours/minutes/seconds are the numbers stated (0 for an
\* absent unit) and whose is_time is false whatever the hint; its expiry is now
\* plus that offset ("2 hours 30 minutes" gives 0, 2, 30, 0).
C17_Duration ==
    (Normalised /\ matched.family = "durations" /\ WholeNumbers(d))
    => /\ raised = ""
       /\ built.days = Stated(d.days) /\ built.hours = Stated(d.hours)
       /\ built.minutes = Stated(d.minutes) /\ built.seconds = Stated(d.seconds)
       /\ ~built.is_time
       /\ pc = "resolved"
            => expiry = now + timedelta(Stated(d.days), Stated(d.hours),
                                        Stated(d.minutes), Stated(d.seconds))
       /\ sentence = text(<<"2", " ", "hours", " ", "3", "0", " ", "minutes">>)
            => (built.days = 0 /\ built.hours = 2 /\ built.minutes = 30
                /\ built.seconds = 0)

-----------------------------------------------------------------------------
(* Properties of the translator *)

\* s.split(): the words of a string
words(string) == SelectSeq(split(string, " "), LAMBDA w : w # <<>>)

\* the surface variants a collection declares, and the token under which
\* exactly the variant v is declared
Variants(collection) ==
    UNION {{chars(v) : v \in Range(collection[k][2].v)} : k \in DOMAIN collection}
DeclaredUnder(collection, v) ==
    chars(collection[CHOOSE k \in DOMAIN collection :
                        /\ v \in {chars(x) : x \in Range(collection[k][2].v)}
                        /\ \A j \in 1..(k - 1) :
                              v \notin {chars(x) : x \in Range(collection[j][2].v)}][1])

\* the words ws from place i on, every occurrence of a variant replaced by the
\* token it is declared under, the longest variant that occurs at a place first
RECURSIVE ReplacedLongestFirst(_, _, _)
ReplacedLongestFirst(ws, i, collection) ==
    IF i > Len(ws) THEN <<>>
    ELSE LET here == {v \in Variants(collection) :
                         /\ i + Len(words(v)) - 1 <= Len(ws)
                         /\ SubSeq(ws, i, i + Len(words(v)) - 1) = words(v)}
         IN  IF here = {} THEN <<ws[i]>> \o ReplacedLongestFirst(ws, i + 1, collection)
             ELSE LET v == CHOOSE x \in here : \A y \in here : Len(words(y)) <= Len(words(x))
                  IN  <<DeclaredUnder(collection, v)>>
                      \o ReplacedLongestFirst(ws, i + Len(words(v)), collection)

\* C20: _translate_collection replaces every occurrence of a variant by the
\* token under which exactly that variant is declared, for list entries and
\* for single strings; where one variant is a sub-phrase of another, the longer
\* one gets the longer one's token and the shorter one alone its own, also
\* with both in one sentence.
C20_LongestVariantFirst ==
    pc = "collection"
    => words(translated.s)
           = ReplacedLongestFirst(words(clean_sentence(sentence, "")), 1,
                                  translated.collection)

\* two lists of pieces are the same text
SamePieces(a, b) ==
    /\ Len(a) = Len(b)
    /\ \A i \in DOMAIN a : a[i].k = b[i].k /\ a[i].v = b[i].v

\* the dict has the key; the value of a key it has
HasKey(params, key) == \E i \in DOMAIN params : params[i][1] = key
ValueOf(params, key) == params[CHOOSE i \in DOMAIN params : params[i][1] = key][2]

\* the value of the parameter time for the params given and the locale:
\* params["time_<locale>"] when present, params["time_en"] otherwise (None
\* when that is absent too)
TimeValue(given, code) ==
    IF HasKey(given, time_key(code)) THEN ValueOf(given, time_key(code))
    ELSE IF HasKey(given, time_en) THEN ValueOf(given, time_en)
    ELSE str_None

\* the template with every {time} replaced by the value t, and every other
\* placeholder that names a key of the params given by that key's value
Substituted(template, given, t) ==
    chain([i \in DOMAIN template |->
              IF template[i].k # "placeholder" THEN <<template[i]>>
              ELSE IF template[i].v = time_param THEN t
              ELSE IF HasKey(given, template[i].v) THEN ValueOf(given, template[i].v)
              ELSE <<template[i]>>])

\* no value of the params is itself a placeholder
Plain(given) ==
    \A i \in DOMAIN given : \A j \in DOMAIN given[i][2] : given[i][2][j].k # "placeholder"

\* the pack of the call's locale cannot be loaded, or has no responses, or no
\* template for the response id
NoTemplate ==
    \/ _two_char_locale(locale) \notin DOMAIN translations
    \/ translations[_two_char_locale(locale)].responses = <<>>
    \/ ~HasKey(translations[_two_char_locale(locale)].responses, response.sentence_id)

\* C19: translate_response substitutes a parameter time whose value is
\* params["time_<locale>"] when that key is present and params["time_en"]
\* otherwise; it returns None, with nothing substituted, when the locale pack
\* cannot be loaded, has no responses or has no template for the response id.
C19_TimeParameter ==
    pc = "responded"
    => IF NoTemplate
       THEN ~response.returned /\ response.params = response.given
       ELSE /\ response.returned
            /\ HasKey(response.params, time_param)
            /\ SamePieces(ValueOf(response.params, time_param),
                          TimeValue(response.given, locale))
            /\ \A i \in DOMAIN response.response :
                  ~(response.response[i].k = "placeholder"
                    /\ response.response[i].v = time_param)
            /\ Plain(response.given)
                 => SamePieces(response.response,
                        Substituted(ValueOf(translations[_two_char_locale(locale)].responses,
                                            response.sentence_id),
                                    response.given,
                                    TimeValue(response.given, locale)))

\* C19 happens: for de-DE with time_de-DE and time_en both given, the German
\* template gets the value of time_de-DE
C19_Witness ==
    /\ pc = "responded"
    /\ locale = <<"d", "e", "-", "D", "E">>
    /\ response.sentence_id = "timer_set"
    /\ HasKey(response.given, time_key(locale)) /\ HasKey(response.given, time_en)
    /\ response.returned
    /\ SamePieces(response.response, <<Txt("Timer gestellt auf ")>> \o Said)

\* C18: normalisation is idempotent: translate and the word normalisation of
\* normalise, applied to the sentence they produced, give that sentence again.
C18_Idempotent ==
    pc = "renormalised" => renormalised = normalised

\* the state decode_time_sentence leaves on its first call
Decoded ==
    pc \in {"built", "undecodable", "raised"} /\ renormalised = <<>> /\ translated = <<>>
        /\ ~response.returned /\ en # <<>>

\* no file for the locale of the call, whichever way its name is cut
LocaleMissing ==
    /\ _two_char_locale(locale) \notin DOMAIN translations
    /\ split_hyphen(locale) \notin DOMAIN translations

\* the first call left what a first call for the locale code would have left
DecodedAsFor(code) ==
    \E r \in {decode_time_sentence(NewTranslator, sentence, code, type_hint, translations)} :
        /\ translator_lang = r.tr.lang
        /\ language_pack = r.lang
        /\ en = r.en
        /\ normalised = r.n.s
        /\ matched = [family |-> r.n.family, n |-> r.n.n]
        /\ timer = r.n.timer
        /\ raised = r.n.raised

\* C14: with no pack for the locale, translator and normaliser fall back to the
\* English pack and process the sentence with it; only when the English pack
\* cannot be loaded either is the sentence returned unchanged. A missing
\* locale pack alone is never a decode failure.
C14_EnglishFallback ==
    (Decoded /\ LocaleMissing)
    => IF <<"e", "n">> \in DOMAIN translations
       THEN /\ language_pack = translations[<<"e", "n">>]
            /\ DecodedAsFor(<<"e", "n">>)
       ELSE en = sentence /\ pc = "undecodable"

\* C15: only the first two characters of the locale code are significant: two
\* codes with the same first two characters ("de", "de-DE", "de_DE") load the
\* same language pack in translator and normaliser and give the same result
\* for the same sentence.
C15_TwoCharacters ==
    Decoded
    => /\ language_pack = translator_lang
       /\ DecodedAsFor(_two_char_locale(locale))

-----------------------------------------------------------------------------
(* Properties of the services *)

\* the sentences, as the templates are run on them, that no standard-time
\* template, no structure of the pack and not the duration pattern matches
Unmatched ==
    {u \in {<<p[2].n.s, p[2].lang>> : p \in Decodings} :
        /\ truthy(u[2])
        /\ first_match(STD_TIME_PATTERNS, u[1]) = 0
        /\ first_match(structure_patterns(u[2].structures), u[1]) = 0
        /\ ~run_regex(<<Raw(make_duration_pattern)>>, u[1]).matched}

\* the handler returned {"response": r} and nothing else, r being the
\* "timer_error" response of the pack of the locale code
OnlyTimerError(result, code, files) ==
    /\ result.raised = ""
    /\ result.keys = {"response"}
    /\ result.returned
    /\ SamePieces(result.response,
                  ValueOf(files[_two_char_locale(code)].responses, "timer_error"))

\* C13: when the normalised sentence matches no standard-time template, no
\* structure and not the duration pattern, normalise returns None,
\* decode_time_sentence returns (None, None), and set_timer and snooze_timer
\* return only the "timer_error" response: no timer is added, no timer task
\* is created and no existing timer is changed.
C13_Undecodable ==
    [][(pc' \in {"set_timer", "snooze_timer"} /\ <<normalised', language_pack'>> \in Unmatched)
       => /\ matched'.family = ""
          /\ OnlyTimerError(response', locale', translations')
          /\ timers' = timers
          /\ timer_tasks' = timer_tasks]_vars

\* C13 happens: snooze_timer with an undecodable sentence for an expired timer,
\* while another timer runs
C13_Witness ==
    /\ pc = "snooze_timer"
    /\ sentence = text(<<"x", "y", "z">>)
    /\ <<normalised, language_pack>> \in Unmatched
    /\ response.sentence_id = "timer_error"
    /\ Len(timers) = 2
    /\ timers[1].status = "expired"
    /\ timers[2].status = "running"
    /\ DOMAIN timer_tasks = {2}

-----------------------------------------------------------------------------
(* Further properties of the resolver and of build_timer_info *)

\* C24: for a TimerInfo that is a clock time with hours <= 23 and minutes,
\* seconds <= 59 and no negative field, the expiry that
\* get_expiry_from_timerinfo returns is never earlier than the current time.
C24_NeverPast ==
    (/\ ResolvedTime
     /\ built.days >= 0
     /\ built.hours \in 0..23 /\ built.minutes \in 0..59 /\ built.seconds \in 0..59)
    => expiry >= now

\* C28: a clock time with time-of-day "am" resolves to a time before 12:00,
\* and 12 "am" resolves to 00:xx.
C28_Am ==
    (ResolvedTime /\ built.timeofday = "am" /\ built.hours \in 0..12)
    => /\ hour(expiry) < 12
       /\ built.hours = 12 => hour(expiry) = 0

\* C26: build_timer_info returns days, hours, minutes and seconds that are
\* all non-negative when the numeric fields of the field map are non-negative,
\* operator inversion with hours = 0 or days = 0 included.
C26_NonNegative ==
    Built => (built.days >= 0 /\ built.hours >= 0
              /\ built.minutes >= 0 /\ built.seconds >= 0)

-----------------------------------------------------------------------------
(* Further properties of normalise *)

\* C27: a sentence whose cleaned form is empty (the empty sentence, or one
\* made only of removed words) is a decode failure: normalise returns None for
\* it, never a TimerInfo with days, hours, minutes and seconds all 0.
C27_EmptyIsFailure ==
    (Normalised /\ cleaned(sentence, normaliser_pack, language_pack) = <<>>)
    => /\ matched.family = ""
       /\ pc = "undecodable"

\* C22: a template with a bracketed list of optional words, such as
\* "[this, at] {std_time}", matches the sentence without any of the words and
\* the sentence with any one of the words and a space put before it.
C22_OptionalWords ==
    Normalised =>
        \A s \in {cleaned(sentence, normaliser_pack, language_pack)} :
        \A template \in Range(structure_patterns(language_pack.structures)) :
            (/\ template # <<>>
             /\ template[1].k = "optional"
             /\ run_regex(Tail(template), s).matched)
            => /\ run_regex(template, s).matched
               /\ \A w \in Range(template[1].v) :
                      run_regex(template, chars(w) \o <<" ">> \o s).matched

\* the number of {placeholders} of a template
placeholders(template) ==
    Cardinality({i \in DOMAIN template : template[i].k = "placeholder"})

\* C23 as stated: a standard-time template with more placeholders is tried
\* before one with fewer, and of the standard-time templates that match a
\* sentence one with the most placeholders supplies the fields.
C23_MoreSpecificFirst ==
    (Normalised /\ matched.family = "std_time")
    => /\ \A k \in DOMAIN STD_TIME_PATTERNS :
              placeholders(STD_TIME_PATTERNS[k]) > placeholders(STD_TIME_PATTERNS[matched.n])
              => k < matched.n
       /\ \A k \in Matching(STD_TIME_PATTERNS,
                            cleaned(sentence, normaliser_pack, language_pack)) :
              placeholders(STD_TIME_PATTERNS[k]) <= placeholders(STD_TIME_PATTERNS[matched.n])

\* C23: the standard-time templates are tried in the order of the list, the
\* first one that matches supplies the fields, and the standard-time templates
\* that match one sentence all have the same number of placeholders.
C23_ListOrder ==
    (Normalised /\ matched.family = "std_time")
    => \A s \in {cleaned(sentence, normaliser_pack, language_pack)} :
       \A std \in {Matching(STD_TIME_PATTERNS, s)} :
           /\ matched.n \in std
           /\ \A k \in std : matched.n <= k
           /\ \A k \in std : placeholders(STD_TIME_PATTERNS[k])
                             = placeholders(STD_TIME_PATTERNS[matched.n])
           /\ d = run_regex(STD_TIME_PATTERNS[matched.n], s).d

\* C23 witness: "5 PM", cleaned to "5 pm", is matched by
\* {std_time}{time_of_day} and by {std_time} {time_of_day}; the first of the
\* two supplied the fields, and templates with three placeholders stand later
\* in the list
C23_Witness ==
    /\ pc = "built"
    /\ sentence = <<"5", " ", "P", "M">>
    /\ matched = [family |-> "std_time", n |-> 3]
    /\ Matching(STD_TIME_PATTERNS, cleaned(sentence, normaliser_pack, language_pack)) = {3, 4}
    /\ placeholders(STD_TIME_PATTERNS[5]) > placeholders(STD_TIME_PATTERNS[3])
    /\ built.hours = 5 /\ built.timeofday = "pm"

-----------------------------------------------------------------------------
(* Properties of the language-pack cache *)

\* the cached pack is the pack of the locale recorded in loaded_lang (no pack
\* when no locale is recorded)
CacheConsistent ==
    IF loaded_lang = None THEN ~truthy(translator_lang)
    ELSE /\ loaded_lang \in DOMAIN translations
         /\ translator_lang = translations[loaded_lang]

\* C21: over a sequence of translate and translate_response calls a call
\* attempts a pack load if and only if its two-character locale differs from
\* loaded_lang as the call finds it, and after every call, one whose load
\* failed included, the cached pack is the pack of the locale in loaded_lang.
C21_SingleSlot ==
    /\ \A c \in DOMAIN calls :
           calls[c].attempted = (_two_char_locale(calls[c].locale) # calls[c].cached)
    /\ InFlight = {} => CacheConsistent

\* C21 witness: a call for de-DE loaded the German pack, a second call for fr
\* attempted a load that failed, and the German pack is still cached as "de"
C21_Witness ==
    /\ Len(calls) = 2 /\ InFlight = {}
    /\ calls[1].locale = <<"d", "e", "-", "D", "E">> /\ calls[1].attempted
    /\ calls[1].result
    /\ calls[2].locale = <<"f", "r">> /\ calls[2].attempted /\ ~calls[2].result
    /\ loaded_lang = <<"d", "e">>
    /\ translator_lang = GermanPack

\* C25: when translate calls for different locales interleave, every call
\* that returns a translation made it with the pack of its own locale.
C25_OwnPack ==
    \A c \in DOMAIN calls :
        (calls[c].pc = "done" /\ calls[c].result)
        => /\ _two_char_locale(calls[c].locale) \in DOMAIN translations
           /\ truthy(calls[c].pack)
           /\ calls[c].pack = translations[_two_char_locale(calls[c].locale)]

-----------------------------------------------------------------------------
(* Properties of the timer tasks *)

\* the places in the events at which the event of this type was fired for timer i
fired(evs, i, event_type) == {k \in DOMAIN evs : evs[k] = <<i, event_type>>}

\* C30: once cancel_timer has removed a timer from the store, no step fires a
\* WARNING or an EXPIRED event for its id, wherever its task was in its wait
\* when the cancel ran.
C30_NoEventAfterCancel ==
    [][\A i \in TimerIds :
           i \notin DOMAIN timers =>
               /\ fired(events', i, "warning") = fired(events, i, "warning")
               /\ fired(events', i, "expired") = fired(events, i, "expired")]_vars

\* timer 1 was cancelled between its warning and its expiry, and timer 2 before
\* its warning; each task woke before cancel_timer reached task.cancel() and
\* ended with no event fired
C30_Witness ==
    /\ TimerIds \cap DOMAIN timers = {}
    /\ 1 \in DOMAIN wait_tasks
    /\ 2 \in DOMAIN wait_tasks
    /\ wait_tasks[1].pc = "raised"
    /\ wait_tasks[2].pc = "raised"
    /\ fired(events, 1, "warning") # {}
    /\ fired(events, 1, "expired") = {}
    /\ fired(events, 2, "warning") = {}
    /\ fired(events, 2, "expired") = {}

\* C29: a timer that start_timer started and that is not cancelled reaches the
\* status EXPIRED with its EXPIRED event fired once, whichever of its task and
\* of the status update of start_timer runs first; at no time is EXPIRED fired
\* twice for a timer, and a WARNING comes before the EXPIRED.
C29_Expires ==
    /\ [](\A i \in TimerIds :
              /\ Cardinality(fired(events, i, "expired")) <= 1
              /\ \A w \in fired(events, i, "warning") :
                     \A e \in fired(events, i, "expired") : w < e)
    /\ \A i \in TimerIds :
           Started(i) ~>
               \/ i \notin DOMAIN timers
               \/ /\ timers[i].status = "expired"
                  /\ Cardinality(fired(events, i, "expired")) = 1

\* timer 1 was started INACTIVE, got its warning and then expired: STARTED,
\* WARNING and EXPIRED were fired once each, in this order
C29_Witness ==
    /\ 1 \in DOMAIN timers
    /\ timers[1].status = "expired"
    /\ 1 \in DOMAIN wait_tasks
    /\ wait_tasks[1].pc = "done"
    /\ \E s \in fired(events, 1, "started") :
           \E w \in fired(events, 1, "warning") :
               \E e \in fired(events, 1, "expired") : s < w /\ w < e
    /\ Cardinality(fired(events, 1, "expired")) = 1

====
